---- MODULE Spec2Model ----
(***************************************************************************)
(* A model of the compiler front-end: the checkpointable character stream  *)
(* (lib/lexer/src/buffer.rs), the token classifier (token.rs, operator.rs),*)
(* the token producer (lexer.rs) and the recursive-descent parser          *)
(* (lib/parser/src/parsers/recursive_descent_parser.rs).                   *)
(*                                                                         *)
(* A character is a one-character string, a Rust String is a sequence of   *)
(* characters, and Option<T> is a sequence of length at most one.          *)
(***************************************************************************)
EXTENDS Integers, Sequences, FiniteSets, TLC

VARIABLES
    input,           \* the bytes behind the Cursor (buffer.rs:11)
    pos,             \* the Cursor's physical stream position
    peeked_char,     \* LexerBufferReader.peeked_char (buffer.rs:10)
    last_positions,  \* LexerBufferReader.last_positions (buffer.rs:9)
    op,              \* observation: the operation called last
    res,             \* observation: what that operation returned
    delivered,       \* observation: the characters handed to the caller so far
    logs,            \* observation: per open checkpoint, the calls made since it
    replay,          \* the caller's script: the calls it repeats after back()
    expect,          \* observation: what the repeated call returned the first time
    line,            \* Lexer.line (lexer.rs:30)
    column,          \* Lexer.column (lexer.rs:31)
    peeked,          \* Lexer.peeked (lexer.rs:33)
    out,             \* observation: the results of the next() calls so far
    lexed,           \* observation: the token the last call scanned, and where it began
    prev             \* observation: the call before the last, and its result

readerVars == <<pos, peeked_char, last_positions>>
readerObs == <<delivered, logs, replay, expect>>
lexerVars == <<line, column, peeked>>
lexerObs == <<out, lexed, prev>>

vars == <<input, readerVars, op, res, readerObs, lexerVars, lexerObs>>

\* ------------------------------------------------------------------ bounds

MaxInput == 3   \* longest input of the character-stream specifications
MaxDepth == 2   \* deepest checkpoint stack explored
MaxX == 2       \* longest call sequence recorded after one checkpoint
MaxSrc == 3     \* longest exhaustively enumerated lexer input
MaxStr == 2     \* longest text between the quotes of a lexer input
MaxPad == 1     \* longest pad around an operator in a lexer input
MaxWs == 2      \* longest run of blanks around the one token of a lexer input
MaxEof == 2     \* next() calls explored after the end of the input
MaxFrags == 2   \* most pieces a classified word is put together from
MaxNest == 1    \* deepest nesting of the expressions of a parsed program
MaxExprs == 2   \* most expressions after = or return in a parsed program
MaxStmts == 2   \* most statements of a parsed program, and of a block

\* ------------------------------------------------------------- Option<T>

None == <<>>
Some(x) == <<x>>
IsSome(o) == Len(o) > 0
Unwrap(o) == o[1]

NL == "\n"

\* All sequences over S of length at most n.
SeqsUpTo(S, n) == UNION {[1..k -> S] : k \in 0..n}

RECURSIVE Flatten(_)
Flatten(ss) == IF ss = <<>> THEN <<>> ELSE Head(ss) \o Flatten(Tail(ss))

\* ---------------------------------------------------------------- buffer.rs
\* The reader as a value: the Cursor position, the peek slot and the
\* checkpoint stack.  The operations return the reader they leave behind.

Reader(p, pc, lp) == [pos |-> p, peeked_char |-> pc, last_positions |-> lp]

\* Cursor::read_exact of one byte: the byte at the position, or UnexpectedEof.
ReadExactStaying(inp, r) ==
    IF r.pos < Len(inp)
    THEN [r |-> r, ok |-> TRUE, char |-> inp[r.pos + 1]]
    ELSE [r |-> r, ok |-> FALSE, char |-> " "]

ReadExact(inp, r) ==
    IF r.pos < Len(inp)
    THEN [r |-> [r EXCEPT !.pos = r.pos + 1], ok |-> TRUE, char |-> inp[r.pos + 1]]
    ELSE [r |-> r, ok |-> FALSE, char |-> " "]

read_char(inp, r) ==
    IF IsSome(r.peeked_char)
    THEN [r |-> [r EXCEPT !.peeked_char = None], ok |-> TRUE, char |-> Unwrap(r.peeked_char)]
    ELSE ReadExact(inp, r)

\* A match that returns the character and leaves the slot empty: the peek consumes.
PeekedConsuming(rd) == [r |-> rd.r, val |-> IF rd.ok THEN Some(rd.char) ELSE None]

\* peek_char's match on the result of read_char: Ok(char) fills the slot.
Peeked(rd) ==
    IF rd.ok
    THEN [r |-> [rd.r EXCEPT !.peeked_char = Some(rd.char)], val |-> Some(rd.char)]
    ELSE [r |-> rd.r, val |-> None]

\* LexerBufferReader::peek_char
peek_char(inp, r) ==
    IF ~IsSome(r.peeked_char)
    THEN Peeked(read_char(inp, r))
    ELSE [r |-> r, val |-> r.peeked_char]

\* BufRead::read_line on the Cursor: the bytes from the physical position up
\* to and including the next newline (or to the end of the input).
RawLineEnd(inp, p) ==
    IF \E i \in (p + 1)..Len(inp) : inp[i] = NL
    THEN CHOOSE i \in (p + 1)..Len(inp) : inp[i] = NL /\ \A j \in (p + 1)..(i - 1) : inp[j] # NL
    ELSE Len(inp)

StripNewlines(s) == SelectSeq(s, LAMBDA c : c # NL)

\* read_line into an empty String: the peek slot is neither read nor cleared.
read_line(inp, r) ==
    LET e == RawLineEnd(inp, r.pos)
        raw == SubSeq(inp, r.pos + 1, e)
    IN [r |-> [r EXCEPT !.pos = e], buf |-> StripNewlines(raw), read_size |-> Len(raw), raw |-> raw]

\* A checkpoint that records the physical position whatever the peek slot holds.
checkpoint_physical(r) == [r EXCEPT !.last_positions = Append(@, r.pos)]

checkpoint(r) ==
    IF IsSome(r.peeked_char)
    THEN [r EXCEPT !.last_positions = Append(@, r.pos - 1)]
    ELSE [r EXCEPT !.last_positions = Append(@, r.pos)]

\* A back that clears the peek slot before it looks at the stack.
back_clearing(r) ==
    IF Len(r.last_positions) > 0
    THEN LET p == r.last_positions[Len(r.last_positions)] IN
         [r |-> [pos |-> p, peeked_char |-> None,
                 last_positions |-> SubSeq(r.last_positions, 1, Len(r.last_positions) - 1)],
          ok |-> TRUE, seeked |-> p]
    ELSE [r |-> [r EXCEPT !.peeked_char = None], ok |-> FALSE, seeked |-> 0]

back(r) ==
    IF Len(r.last_positions) > 0
    THEN LET p == r.last_positions[Len(r.last_positions)] IN
         [r |-> [pos |-> p, peeked_char |-> None,
                 last_positions |-> SubSeq(r.last_positions, 1, Len(r.last_positions) - 1)],
          ok |-> TRUE, seeked |-> p]
    ELSE [r |-> r, ok |-> FALSE, seeked |-> 0]

\* ------------------------------------------- the reader as a state machine

ReaderChars == {"a", "b"}
LineChars == {"a", "b", NL}

Cur == Reader(pos, peeked_char, last_positions)

SetReader(r) ==
    /\ pos' = r.pos
    /\ peeked_char' = r.peeked_char
    /\ last_positions' = r.last_positions

Obs(o, v) == [op |-> o, val |-> v]

\* The caller's side of a read or a peek: while it repeats a recorded
\* sequence it makes the recorded call; the call is logged under the innermost
\* open checkpoint.  A log remembers whether the peek slot was occupied when
\* its checkpoint was taken.
Room == IF logs = <<>> THEN TRUE ELSE Len(logs[Len(logs)].calls) < MaxX

MayCall(o) == IF replay # <<>> THEN Head(replay).op = o ELSE Room

Logged(o, v) ==
    /\ logs' = IF logs = <<>> THEN logs
               ELSE [logs EXCEPT ![Len(logs)].calls = Append(@, Obs(o, v))]
    /\ expect' = IF replay # <<>> THEN Some(Head(replay)) ELSE None
    /\ replay' = IF replay # <<>> THEN Tail(replay) ELSE replay

ReadChar ==
    /\ MayCall("read_char")
    /\ LET rd == read_char(input, Cur) IN
       /\ SetReader(rd.r)
       /\ op' = "read_char"
       /\ res' = IF rd.ok THEN Some(rd.char) ELSE None
       /\ delivered' = IF rd.ok THEN Append(delivered, rd.char) ELSE delivered
       /\ Logged("read_char", IF rd.ok THEN Some(rd.char) ELSE None)
    /\ UNCHANGED <<input, lexerVars, lexerObs>>

PeekChar ==
    /\ MayCall("peek_char")
    /\ LET pk == peek_char(input, Cur) IN
       /\ SetReader(pk.r)
       /\ op' = "peek_char"
       /\ res' = pk.val
       /\ Logged("peek_char", pk.val)
    /\ UNCHANGED <<input, delivered, lexerVars, lexerObs>>

ReadLine ==
    /\ LET rl == read_line(input, Cur) IN
       /\ SetReader(rl.r)
       /\ op' = "read_line"
       /\ res' = rl.buf
       /\ delivered' = delivered \o rl.raw
    /\ UNCHANGED <<input, logs, replay, expect, lexerVars, lexerObs>>

Checkpoint ==
    /\ replay = <<>>
    /\ Len(last_positions) < MaxDepth
    /\ Room
    /\ SetReader(checkpoint(Cur))
    /\ op' = "checkpoint"
    /\ res' = None
    /\ logs' = Append(logs, [pk |-> IsSome(peeked_char), calls |-> <<>>])
    /\ expect' = None
    /\ UNCHANGED <<input, delivered, replay, lexerVars, lexerObs>>

\* The characters a logged call sequence consumed.
Consumed(calls) == Len(SelectSeq(calls, LAMBDA o : o.op = "read_char" /\ IsSome(o.val)))

Back ==
    /\ replay = <<>>
    /\ LET b == back(Cur) IN
       /\ SetReader(b.r)
       /\ op' = "back"
       /\ res' = IF b.ok THEN Some(b.seeked) ELSE None
       /\ IF b.ok
          THEN LET x == logs[Len(logs)] IN
               /\ replay' = [i \in 1..Len(x.calls) |->
                                [op |-> x.calls[i].op, val |-> x.calls[i].val, pk |-> x.pk]]
               /\ logs' = SubSeq(logs, 1, Len(logs) - 1)
               /\ delivered' = SubSeq(delivered, 1, Len(delivered) - Consumed(x.calls))
          ELSE UNCHANGED <<replay, logs, delivered>>
    /\ expect' = None
    /\ UNCHANGED <<input, lexerVars, lexerObs>>

Fresh ==
    /\ pos = 0
    /\ peeked_char = None
    /\ last_positions = <<>>
    /\ op = "new"
    /\ res = None
    /\ delivered = <<>>
    /\ logs = <<>>
    /\ replay = <<>>
    /\ expect = None
    /\ line = 1
    /\ column = 0
    /\ peeked = None
    /\ out = <<>>
    /\ lexed = None
    /\ prev = None

InitReader == input \in SeqsUpTo(ReaderChars, MaxInput) /\ Fresh

InitReaderLines == input \in SeqsUpTo(LineChars, MaxInput) /\ Fresh

\* read_char, peek_char, checkpoint and back in any order.
NextReader == ReadChar \/ PeekChar \/ Checkpoint \/ Back

SpecReader == InitReader /\ [][NextReader]_vars

\* read_char, peek_char and read_line in any order.
NextReaderLines == ReadChar \/ PeekChar \/ ReadLine

SpecReaderLines == InitReaderLines /\ [][NextReaderLines]_vars

IsPrefix(s, t) == Len(s) <= Len(t) /\ \A i \in 1..Len(s) : s[i] = t[i]

C6_ReadPeekOrder ==
    /\ IsPrefix(delivered, input)
    /\ op = "read_char" =>
          IF IsSome(res) THEN res = Some(input[Len(delivered)])
                         ELSE Len(delivered) = Len(input)
    /\ op = "peek_char" =>
          res = IF Len(delivered) < Len(input) THEN Some(input[Len(delivered) + 1]) ELSE None

\* A read after a peek returned the second character of the input.
C6_Witness ==
    /\ op = "read_char"
    /\ Len(delivered) = 2
    /\ res = Some(input[2])
    /\ input[1] # input[2]
    /\ logs = <<>>

\* C7: read_line continues where read_char and peek_char left off: the
\* characters delivered are the first characters of the input, in order, and
\* after read_line the peek slot is empty.
C7_ReadLineSharesPosition ==
    /\ IsPrefix(delivered, input)
    /\ op = "read_line" => ~IsSome(peeked_char)

\* -------------------------------------------------------------- operator.rs

\* enum Operator
Operators ==
    {"Plus", "Or", "And", "Minus", "Mul", "Div", "Equal", "Lesser", "LesserEqual", "Greater",
     "GreaterEqual", "Increment", "Decrement"}

is_operator_assign(w) ==
    w \in {<<"+">>, <<"-">>, <<"/">>, <<"*">>, <<"=", "=">>, <<"<">>, <<"<", "=">>, <<">">>,
           <<">", "=">>, <<"&", "&">>, <<"|", "|">>, <<"+", "+">>, <<"-", "-">>, <<"=">>}

is_operator(w) ==
    w \in {<<"+">>, <<"-">>, <<"/">>, <<"*">>, <<"=", "=">>, <<"<">>, <<"<", "=">>, <<">">>,
           <<">", "=">>, <<"&", "&">>, <<"|", "|">>, <<"+", "+">>, <<"-", "-">>}

\* impl Display for Operator: the operator's lexeme.  An operator the enum
\* does not have (see Pointer below) is left as its name.
Display(o) ==
    CASE o = "And" -> <<"&", "&">>
      [] o = "Or" -> <<"|", "|">>
      [] o = "Plus" -> <<"+">>
      [] o = "Minus" -> <<"-">>
      [] o = "Mul" -> <<"*">>
      [] o = "Div" -> <<"/">>
      [] o = "Equal" -> <<"=", "=">>
      [] o = "Lesser" -> <<"<">>
      [] o = "LesserEqual" -> <<"<", "=">>
      [] o = "Greater" -> <<">">>
      [] o = "GreaterEqual" -> <<">", "=">>
      [] o = "Increment" -> <<"+", "+">>
      [] o = "Decrement" -> <<"-", "-">>
      [] OTHER -> <<o>>

\* A From<&str> without the arm of --, which then goes by its first character.
OperatorFromFirst(w) ==
    CASE w = <<"=", "=">> -> "Equal"
      [] w = <<"<", "=">> -> "LesserEqual"
      [] w = <<">", "=">> -> "GreaterEqual"
      [] w = <<"&", "&">> -> "And"
      [] w = <<"|", "|">> -> "Or"
      [] w = <<"+", "+">> -> "Increment"
      [] OTHER -> LET c == IF w = <<>> THEN " " ELSE w[1] IN
                  CASE c = "+" -> "Plus"
                    [] c = "-" -> "Minus"
                    [] c = "/" -> "Div"
                    [] c = "*" -> "Mul"
                    [] c = ">" -> "Greater"
                    [] c = "<" -> "Lesser"
                    [] OTHER -> "panic"

\* impl From<&str> for Operator; "panic" stands for the panic of the last arm.
OperatorFrom(w) ==
    CASE w = <<"=", "=">> -> "Equal"
      [] w = <<"<", "=">> -> "LesserEqual"
      [] w = <<">", "=">> -> "GreaterEqual"
      [] w = <<"&", "&">> -> "And"
      [] w = <<"|", "|">> -> "Or"
      [] w = <<"+", "+">> -> "Increment"
      [] w = <<"-", "-">> -> "Decrement"
      [] OTHER -> LET c == IF w = <<>> THEN " " ELSE w[1] IN
                  CASE c = "+" -> "Plus"
                    [] c = "-" -> "Minus"
                    [] c = "/" -> "Div"
                    [] c = "*" -> "Mul"
                    [] c = ">" -> "Greater"
                    [] c = "<" -> "Lesser"
                    [] OTHER -> "panic"

\* ----------------------------------------------------------------- token.rs

KEYWORDS ==
    << <<"i", "f">>,
       <<"e", "l", "i", "f">>,
       <<"e", "l", "s", "e">>,
       <<"w", "h", "i", "l", "e">>,
       <<"f", "o", "r">>,
       <<"r", "e", "t", "u", "r", "n">>,
       <<"c", "o", "n", "t", "i", "n", "u", "e">>,
       <<"b", "r", "e", "a", "k">>,
       <<"i", "n", "t">>,
       <<"b", "o", "o", "l">>,
       <<"s", "t", "r", "i", "n", "g">>,
       <<"c", "h", "a", "r">>,
       <<"f", "l", "o", "a", "t">>,
       <<"f", "n">> >>

\* A token: its tag and its payload.  An Operator carries the operator's name,
\* a tag without payload carries nothing.
Tok(class, value) == [class |-> class, value |-> value]
Identifier(w) == Tok("Identifier", w)
Keyword(w) == Tok("Keyword", w)
Operator(o) == Tok("Operator", <<o>>)
Literal(w) == Tok("Literal", w)
Number(w) == Tok("Number", w)
Boolean(w) == Tok("Boolean", w)
Error(w) == Tok("Error", w)
Bare(class) == Tok(class, <<>>)

is_special_char(c) == c \in {";", "(", ")", "{", "}", "=", ","}

is_keyword(word) == \E i \in DOMAIN KEYWORDS : KEYWORDS[i] = word

\* Regex ^(".*?")$ : a quote, any characters but the newline, a quote.
is_string(word) ==
    /\ Len(word) >= 2
    /\ word[1] = "\""
    /\ word[Len(word)] = "\""
    /\ \A i \in 2..(Len(word) - 1) : word[i] # NL

Digits == {"0", "1", "2", "3", "4", "5", "6", "7", "8", "9"}

IsDigits(s) == Len(s) >= 1 /\ \A i \in 1..Len(s) : s[i] \in Digits

\* Regex ^(\d+(\.\d+)?)$
is_number(word) ==
    \/ IsDigits(word)
    \/ \E k \in 2..(Len(word) - 1) :
          /\ word[k] = "."
          /\ IsDigits(SubSeq(word, 1, k - 1))
          /\ IsDigits(SubSeq(word, k + 1, Len(word)))

StartsWith(word, p) == Len(word) >= Len(p) /\ SubSeq(word, 1, Len(p)) = p
EndsWith(word, p) == Len(word) >= Len(p) /\ SubSeq(word, Len(word) - Len(p) + 1, Len(word)) = p

TrueWord == <<"t", "r", "u", "e">>
FalseWord == <<"f", "a", "l", "s", "e">>

\* Regex ^true|false$ : the alternation binds loosest, so the word starts
\* with true, or it ends with false.
is_boolean(word) == StartsWith(word, TrueWord) \/ EndsWith(word, FalseWord)

\* impl From<char> for Token
TokenFromChar(c) ==
    IF is_operator(<<c>>) THEN Operator(OperatorFrom(<<c>>))
    ELSE CASE c = ";" -> Bare("Semi")
           [] c = "(" -> Bare("Lparen")
           [] c = ")" -> Bare("Rparen")
           [] c = "{" -> Bare("LCurly")
           [] c = "}" -> Bare("RCurly")
           [] c = "=" -> Bare("Assignment")
           [] c = "," -> Bare("Comma")
           [] OTHER -> Error(<<"Failed to parse character to a token: ", c>>)

\* impl From<&str> for Token
TokenFromStrChar(word) ==
    IF is_keyword(word) THEN Keyword(word)
    ELSE IF is_operator(word) THEN Operator(OperatorFrom(word))
    ELSE IF is_boolean(word) THEN Boolean(word)
    ELSE IF is_string(word) THEN Literal(SubSeq(word, 2, Len(word) - 1))
    ELSE IF is_number(word) THEN Number(word)
    ELSE IF Len(word) = 1 THEN TokenFromChar(word[1])
    ELSE Identifier(word)

TokenFromStr(word) ==
    IF is_keyword(word) THEN Keyword(word)
    ELSE IF is_operator(word) THEN Operator(OperatorFrom(word))
    ELSE IF is_boolean(word) THEN Boolean(word)
    ELSE IF is_string(word) THEN Literal(SubSeq(word, 2, Len(word) - 1))
    ELSE IF is_number(word) THEN Number(word)
    ELSE IF Len(word) = 1
         THEN LET t == TokenFromChar(word[1]) IN
              IF t.class = "Error" THEN Identifier(word) ELSE t
    ELSE Identifier(word)

\* -------------------------------------------- the classifier, word by word

\* The pieces the words are put together from: every keyword, the two
\* boolean words, and single characters of each kind.
Fragments ==
    {KEYWORDS[i] : i \in DOMAIN KEYWORDS} \cup {TrueWord, FalseWord}
    \cup {<<c>> : c \in {"x", "1", ".", "\"", "=", "+", "&", "@", " "}}

\* 19.5   testing.testing_again   3.   1.2.3
Word19p5 == <<"1", "9", ".", "5">>
WordDotted == <<"t", "e", "s", "t", "i", "n", "g", ".", "t", "e", "s", "t", "i", "n", "g", "_",
                "a", "g", "a", "i", "n">>
Word3p == <<"3", ".">>
Word1p2p3 == <<"1", ".", "2", ".", "3">>

Words ==
    {Flatten(fs) : fs \in SeqsUpTo(Fragments, MaxFrags)}
    \cup {Word19p5, WordDotted, Word3p, Word1p2p3}

InitToken ==
    /\ input \in Words
    /\ Fresh

\* let token: Token = word.into();
FromStr ==
    /\ op = "new"
    /\ op' = "from_str"
    /\ res' = Some(TokenFromStr(input))
    /\ UNCHANGED <<input, readerVars, readerObs, lexerVars, lexerObs>>

NextToken == FromStr

SpecToken == InitToken /\ [][NextToken]_vars

Letters == {"a", "b", "c", "d", "e", "f", "g", "h", "i", "j", "k", "l", "m", "n", "o", "p",
            "q", "r", "s", "t", "u", "v", "w", "x", "y", "z"}

\* w is kw with letters before it, after it, or both.
ProperPart(kw, w) ==
    /\ Len(w) > Len(kw)
    /\ \E k \in 0..(Len(w) - Len(kw)) : SubSeq(w, k + 1, k + Len(kw)) = kw

\* C9: a keyword on its own is a Keyword; a longer word of letters that has
\* a keyword as a proper part (and is not a keyword itself, as elif is) is an
\* Identifier carrying the whole word.
C9_KeywordOrIdentifier ==
    op = "from_str" =>
       /\ is_keyword(input) => res = Some(Keyword(input))
       /\ ( /\ ~is_keyword(input)
            /\ \A i \in 1..Len(input) : input[i] \in Letters
            /\ \E i \in DOMAIN KEYWORDS : ProperPart(KEYWORDS[i], input) )
          => res = Some(Identifier(input))

\* C10: a Boolean token carries exactly true or exactly false.
C10_BooleanPayload ==
    (op = "from_str" /\ Unwrap(res).class = "Boolean") => Unwrap(res).value \in {TrueWord, FalseWord}

\* ----------------------------------------------------------------- lexer.rs

TokenInfo(l, c, t) == [line |-> l, start_column |-> c, token |-> t]

\* The Lexer as a value.
Lexer(l, c, cur, pk) == [line |-> l, column |-> c, cursor |-> cur, peeked |-> pk]

\* char::is_whitespace on ASCII.
is_whitespace(c) == c \in {" ", "\t", "\n", "\r", "\f"}

\* What a next() call hands back: the lexer it leaves, Ok(info) or
\* Err(EndOfFileReached), whether it panicked, and, for a token it scanned
\* rather than took from the memo, the input index of the token's first
\* character (0 otherwise).
Result(lx, info, first) == [lx |-> lx, ok |-> TRUE, info |-> info, first |-> first, panic |-> FALSE]
\* An end of file that leaves the stream at its start again.
EndOfFileRewinding(lx) ==
    [lx |-> [lx EXCEPT !.cursor = Reader(0, None, <<>>)], ok |-> FALSE, info |-> None,
     first |-> 0, panic |-> FALSE]
EndOfFile(lx) == [lx |-> lx, ok |-> FALSE, info |-> None, first |-> 0, panic |-> FALSE]
Panic(lx) == [lx |-> lx, ok |-> FALSE, info |-> None, first |-> 0, panic |-> TRUE]

LexerOf(st) == Lexer(st.line, st.column, st.cursor, None)

\* The `while let` loop of next().  Its state st: the lexer's cursor, line and
\* column, the locals word, in_a_string, start_column and start_line, and
\* first, the input index of the first character pushed on word.  One
\* iteration is Scan; the value is the Result returned from inside the loop,
\* or the loop state at its exit (ret empty).
Exit(st) == [ret |-> None, st |-> st]

Return(st, token, at) ==
    [ret |-> Some(Result(LexerOf(st), TokenInfo(st.start_line, st.start_column, token), at)),
     st |-> st]

RECURSIVE Scan(_, _)

PushOn(inp, st, next_char) == Scan(inp, st)

\* The last arm, after word.push(c): break before a special char.
Push(inp, st, next_char) ==
    IF ~st.in_a_string /\ is_special_char(next_char) THEN Exit(st) ELSE Scan(inp, st)

\* The second arm: the second character is read, and the operator returned.
TwoChar(st, concatanated, at, second) ==
    IF ~second.ok \/ OperatorFrom(concatanated) = "panic"
    THEN [ret |-> Some(Panic(LexerOf(st))), st |-> st]
    ELSE Return([st EXCEPT !.cursor = second.r, !.column = @ + 1],
                Operator(OperatorFrom(concatanated)), at)

\* The match with the single-character arm tried before the two-character one.
MatchSingleFirst(inp, st, char, next_char, at) ==
    IF ~st.in_a_string /\ is_whitespace(char)
    THEN IF Len(st.word) > 0 THEN Exit(st)
         ELSE Scan(inp, [st EXCEPT !.start_column = @ + 1])
    ELSE IF ~st.in_a_string /\ (is_special_char(char) \/ is_operator(<<char>>))
    THEN Return(st, TokenFromChar(char), at)
    ELSE IF ~st.in_a_string /\ next_char # " " /\ is_operator(<<char, next_char>>)
    THEN TwoChar(st, <<char, next_char>>, at, read_char(inp, st.cursor))
    ELSE Push(inp,
              [st EXCEPT !.word = Append(@, char),
                         !.in_a_string = IF char = "\"" THEN ~@ ELSE @,
                         !.first = IF st.word = <<>> THEN at ELSE @],
              next_char)

\* match char { ... }
Match(inp, st, char, next_char, at) ==
    IF ~st.in_a_string /\ is_whitespace(char)
    THEN IF Len(st.word) > 0 THEN Exit(st)
         ELSE Scan(inp, [st EXCEPT !.start_column = @ + 1])
    ELSE IF ~st.in_a_string /\ next_char # " " /\ is_operator(<<char, next_char>>)
    THEN TwoChar(st, <<char, next_char>>, at, read_char(inp, st.cursor))
    ELSE IF ~st.in_a_string /\ (is_special_char(char) \/ is_operator(<<char>>))
    THEN Return(st, TokenFromChar(char), at)
    ELSE Push(inp,
              [st EXCEPT !.word = Append(@, char),
                         !.in_a_string = IF char = "\"" THEN ~@ ELSE @,
                         !.first = IF st.word = <<>> THEN at ELSE @],
              next_char)

\* let next_char = *self.cursor.peek_char().unwrap_or(&' ');
ScanPeek(inp, st, char, at, pk) ==
    Match(inp, [st EXCEPT !.cursor = pk.r], char,
          IF IsSome(pk.val) THEN Unwrap(pk.val) ELSE " ", at)

\* while let Ok(char) = self.cursor.read_char() { if char == '\n' ... }
ScanRead(inp, st, rd) ==
    IF ~rd.ok THEN Exit([st EXCEPT !.cursor = rd.r])
    ELSE IF rd.char = NL
    THEN Exit([st EXCEPT !.cursor = rd.r, !.line = @ + 1, !.column = 0])
    ELSE ScanPeek(inp, [st EXCEPT !.column = @ + 1], rd.char, rd.r.pos, peek_char(inp, rd.r))

Scan(inp, st) == ScanRead(inp, st, read_char(inp, st.cursor))

RECURSIVE next(_, _)

\* After the loop: an empty word calls next() again, any other is classified.
Finish(inp, loop) ==
    IF IsSome(loop.ret) THEN Unwrap(loop.ret)
    ELSE IF Len(loop.st.word) = 0 THEN next(inp, LexerOf(loop.st))
    ELSE Result(LexerOf(loop.st),
                TokenInfo(loop.st.start_line, loop.st.start_column, TokenFromStr(loop.st.word)),
                loop.st.first)

\* A next() whose start_column is the column counter itself.
BeginAtColumn(inp, lx, pk) ==
    IF ~IsSome(pk.val) THEN EndOfFile([lx EXCEPT !.cursor = pk.r])
    ELSE Finish(inp, Scan(inp, [cursor |-> pk.r, line |-> lx.line, column |-> lx.column,
                                word |-> <<>>, in_a_string |-> FALSE,
                                start_column |-> lx.column, start_line |-> lx.line,
                                first |-> 0]))

\* if self.cursor.peek_char().is_none() { return Err(EndOfFileReached) }
Begin(inp, lx, pk) ==
    IF ~IsSome(pk.val) THEN EndOfFile([lx EXCEPT !.cursor = pk.r])
    ELSE Finish(inp, Scan(inp, [cursor |-> pk.r, line |-> lx.line, column |-> lx.column,
                                word |-> <<>>, in_a_string |-> FALSE,
                                start_column |-> lx.column + 1, start_line |-> lx.line,
                                first |-> 0]))

next_keeping(inp, lx) ==
    IF IsSome(lx.peeked)
    THEN Result(lx, Unwrap(lx.peeked), 0)
    ELSE Begin(inp, lx, peek_char(inp, lx.cursor))

\* Lexer::next
next(inp, lx) ==
    IF IsSome(lx.peeked)
    THEN Result([lx EXCEPT !.peeked = None], Unwrap(lx.peeked), 0)
    ELSE Begin(inp, lx, peek_char(inp, lx.cursor))

\* A peek that hands the token out without keeping it.
MemoForgetting(r) ==
    [lx |-> r.lx, val |-> IF r.ok THEN Some(r.info) ELSE None, first |-> r.first, panic |-> r.panic]

\* peek's match on the result of next(): Ok(token_info) is memoized.
Memo(r) ==
    IF r.ok THEN [lx |-> [r.lx EXCEPT !.peeked = Some(r.info)], val |-> Some(r.info),
                  first |-> r.first, panic |-> FALSE]
    ELSE [lx |-> r.lx, val |-> None, first |-> 0, panic |-> r.panic]

\* Lexer::peek
peek(inp, lx) ==
    IF IsSome(lx.peeked) THEN [lx |-> lx, val |-> lx.peeked, first |-> 0, panic |-> FALSE]
    ELSE Memo(next(inp, lx))

\* Lexer::new
NewLexer == Lexer(1, 0, Reader(0, None, <<>>), None)

\* The tokens of an input: next() until it fails.
RECURSIVE Drain(_, _)
Rest(inp, r) == IF r.ok THEN <<r.info>> \o Drain(inp, r.lx) ELSE <<>>
Drain(inp, lx) == Rest(inp, next(inp, lx))

TokenStream(inp) == Drain(inp, NewLexer)

\* ------------------------------------------- the lexer as a state machine

SrcChars == {"a", " ", NL, "=", "+", ";", "\""}
TwoCharOps == {<<"=", "=">>, <<"<", "=">>, <<">", "=">>, <<"&", "&">>, <<"|", "|">>,
               <<"+", "+">>, <<"-", "-">>}
Pads == SeqsUpTo({"a", " ", "="}, MaxPad)

StrChars == {"a", " ", NL, "=", "+", ";"}

Blanks == SeqsUpTo({" ", NL}, MaxWs)
OneTokens == {<<"a">>, <<"i", "f">>, <<"1">>, <<"=">>, <<">", "=">>, <<"+">>, <<"(">>,
              <<"\"", "a", " ", "\"">>, <<"&">>, <<"@">>, <<".">>}

\* Every two characters of which operators are made.
OperatorPairs ==
    {<<c, e>> : c \in {"+", "-", "/", "*", "=", "<", ">", "&", "|"},
                e \in {"+", "-", "/", "*", "=", "<", ">", "&", "|"}}

\* Every input over SrcChars up to MaxSrc characters, every two-character
\* operator between two short pads, every short quoted text, single
\* tokens between blanks, and every pair of operator characters.
Sources ==
    SeqsUpTo(SrcChars, MaxSrc)
    \cup {pre \o o \o post : pre \in Pads, o \in TwoCharOps, post \in Pads}
    \cup {<<"\"">> \o text \o <<"\"">> : text \in SeqsUpTo(StrChars, MaxStr)}
    \cup {pre \o t \o post : pre \in Blanks, t \in OneTokens, post \in Blanks}
    \cup OperatorPairs

CurLexer == Lexer(line, column, Cur, peeked)

SetLexer(lx) ==
    /\ line' = lx.line
    /\ column' = lx.column
    /\ peeked' = lx.peeked
    /\ SetReader(lx.cursor)

Scanned(info, first) == IF first > 0 THEN Some([info |-> info, first |-> first]) ELSE None

EofsSeen == Len(SelectSeq(out, LAMBDA r : ~IsSome(r)))

Called(o, lx, val, scanned) ==
    /\ SetLexer(lx)
    /\ op' = o
    /\ res' = val
    /\ lexed' = scanned
    /\ prev' = Some(Obs(op, res))
    /\ out' = IF o = "next" THEN Append(out, val) ELSE out
    /\ UNCHANGED <<input, readerObs>>

Returned(o, r, val) == ~r.panic /\ Called(o, r.lx, val, Scanned(Unwrap(val), r.first))

NextResult(r) == Returned("next", r, IF r.ok THEN Some(r.info) ELSE None)

LexNext == EofsSeen < MaxEof /\ NextResult(next(input, CurLexer))

PeekResult(r) == Returned("peek", r, r.val)

LexPeek == PeekResult(peek(input, CurLexer))

InitLexer == input \in Sources /\ Fresh

NextLexer == LexNext \/ LexPeek

SpecLexer == InitLexer /\ [][NextLexer]_vars

\* The 1-based line and column of the input's f-th character.
NewlinesBefore(inp, f) == {i \in 1..(f - 1) : inp[i] = NL}
LineOf(inp, f) == 1 + Cardinality(NewlinesBefore(inp, f))
ColOf(inp, f) ==
    IF NewlinesBefore(inp, f) = {} THEN f
    ELSE f - (CHOOSE i \in NewlinesBefore(inp, f) : \A j \in NewlinesBefore(inp, f) : j <= i)

\* C2: a scanned token carries the line and the column of its first character.
C2_TokenPosition ==
    IsSome(lexed) =>
       /\ Unwrap(lexed).info.line = LineOf(input, Unwrap(lexed).first)
       /\ Unwrap(lexed).info.start_column = ColOf(input, Unwrap(lexed).first)

TwoCharName(w) ==
    CASE w = <<"=", "=">> -> "Equal"
      [] w = <<"<", "=">> -> "LesserEqual"
      [] w = <<">", "=">> -> "GreaterEqual"
      [] w = <<"&", "&">> -> "And"
      [] w = <<"|", "|">> -> "Or"
      [] w = <<"+", "+">> -> "Increment"
      [] w = <<"-", "-">> -> "Decrement"

\* The two characters of the input from its f-th on (the last one alone at the end).
PairAt(inp, f) == SubSeq(inp, f, IF f < Len(inp) THEN f + 1 ELSE f)

\* C3: a token that starts where the input has a two-character operator is
\* that one Operator, and the column counter is then at the operator's second
\* character; a token that starts at an = not followed by = is Assignment.
C3_TwoCharOperator ==
    IsSome(lexed) =>
       /\ PairAt(input, Unwrap(lexed).first) \in TwoCharOps =>
             /\ Unwrap(lexed).info.token =
                   Operator(TwoCharName(PairAt(input, Unwrap(lexed).first)))
             /\ column = ColOf(input, Unwrap(lexed).first + 1)
             /\ pos - Len(peeked_char) = Unwrap(lexed).first + 1
       /\ ( /\ input[Unwrap(lexed).first] = "="
            /\ PairAt(input, Unwrap(lexed).first) # <<"=", "=">> )
          => Unwrap(lexed).info.token = Bare("Assignment")

\* >= after one character was scanned as GreaterEqual.
C3_Witness ==
    /\ IsSome(lexed)
    /\ Unwrap(lexed).first = 2
    /\ Unwrap(lexed).info.token = Operator("GreaterEqual")
    /\ column = 3

\* The i-th result of next() on an input when peek() is never called.
Reference(inp, i) == IF i <= Len(TokenStream(inp)) THEN Some(TokenStream(inp)[i]) ELSE None

\* C4: the results of next() are those of a run without any peek(); a
\* peek() or a next() that follows a peek() returns what that peek() returned.
C4_PeekIdempotent ==
    /\ \A i \in 1..Len(out) : out[i] = Reference(input, i)
    /\ (IsSome(prev) /\ Unwrap(prev).op = "peek" /\ op \in {"peek", "next"})
          => res = Unwrap(prev).val

\* The second token was peeked and then taken.
C4_Witness ==
    /\ IsSome(prev)
    /\ Unwrap(prev).op = "peek"
    /\ op = "next"
    /\ IsSome(res)
    /\ Len(out) = 2
    /\ out[1] # out[2]

Quote == "\""

\* A quote, characters other than the quote, a quote.
IsQuoted(inp) ==
    /\ Len(inp) >= 2
    /\ inp[1] = Quote
    /\ inp[Len(inp)] = Quote
    /\ \A i \in 2..(Len(inp) - 1) : inp[i] # Quote

Content(inp) == SubSeq(inp, 2, Len(inp) - 1)

\* The results of next() on inp so far are one Literal carrying the text
\* between the quotes, and then the end of the input.
OneLiteral(inp) ==
    \A i \in 1..Len(out) :
       IF i = 1 THEN IsSome(out[i]) /\ Unwrap(out[i]).token = Literal(Content(inp))
       ELSE out[i] = None

\* C8 as claimed: every quoted input, a newline between the quotes included,
\* is one Literal.
C8_AnyQuoted == IsQuoted(input) => OneLiteral(input)

\* Without a newline between the quotes the quoted input is one Literal.
QuotedOnOneLine ==
    (IsQuoted(input) /\ \A i \in 1..Len(input) : input[i] # NL) => OneLiteral(input)


\* ------------------------------------------------ one token between blanks

\* The numbers of whitespace characters an input begins and ends with.
Lead(inp) == Cardinality({i \in 1..Len(inp) : \A j \in 1..i : is_whitespace(inp[j])})
Trail(inp) == Cardinality({i \in 1..Len(inp) : \A j \in i..Len(inp) : is_whitespace(inp[j])})

\* The input without the whitespace around it.
Core(inp) == SubSeq(inp, Lead(inp) + 1, Len(inp) - Trail(inp))

Quotes(w) == Cardinality({i \in 1..Len(w) : w[i] = "\""})

\* The input is whitespace, one token (with any quote closed), whitespace.
IsPadded(inp) ==
    /\ Lead(inp) < Len(inp)
    /\ Quotes(Core(inp)) % 2 = 0
    /\ Len(TokenStream(Core(inp))) = 1

\* The results of next() so far are one token, the one of the bare text, at
\* the given column, and then the end of the input.
OnceAt(inp, col) ==
    \A i \in 1..Len(out) :
       IF i = 1
       THEN /\ IsSome(out[i])
            /\ Unwrap(out[i]).token = TokenStream(Core(inp))[1].token
            /\ Unwrap(out[i]).start_column = col
       ELSE out[i] = None

\* C11 as claimed: the token of an input of one token between whitespace is
\* returned once, at column 1 + the width of the leading whitespace.
C11_ColumnIsLeadingWidth == IsPadded(input) => OnceAt(input, 1 + Lead(input))

\* C11: the token of an input of one token between whitespace is returned
\* once, then the end of input; its column is 1 + the width of the leading
\* whitespace after the last newline in it, its line 1 + the newlines before it.
C11_PaddedToken ==
    IsPadded(input) =>
       /\ OnceAt(input, ColOf(input, Lead(input) + 1))
       /\ \A i \in 1..Len(out) :
             IsSome(out[i]) => Unwrap(out[i]).line = LineOf(input, Lead(input) + 1)

\* The token after a newline and a blank was returned at 2:2, and then the end of input.
C11_Witness ==
    /\ input = <<NL, " ", "a", " ">>
    /\ Len(out) = 2
    /\ Unwrap(out[1]) = TokenInfo(2, 2, Identifier(<<"a">>))
    /\ out[2] = None

\* ------------------------------------------------------- the end of input

\* C12: on an input of whitespace only every next() fails with the end of
\* file; after a next() that failed with the end of file every next() fails
\* with it and every peek() returns nothing.
C12_EndOfFileIsTerminal ==
    /\ (\A i \in 1..Len(input) : is_whitespace(input[i])) =>
          \A i \in 1..Len(out) : out[i] = None
    /\ \A i, j \in 1..Len(out) : (i < j /\ out[i] = None) => out[j] = None
    /\ (EofsSeen > 0 /\ op = "peek") => res = None

\* After a token next() failed twice, and then peek() returned nothing.
C12_Witness ==
    /\ Len(out) = 3
    /\ IsSome(out[1])
    /\ out[2] = None
    /\ out[3] = None
    /\ op = "peek"
    /\ res = None

\* ------------------------------------------------------------ parse_node.rs
\* A String put together by format! or push_str is the sequence of the
\* pieces it was put together from.

Loc(l, c) == [line |-> l, column |-> c]

ParseNode(loc, kind, value, children) ==
    [loc |-> loc, kind |-> kind, value |-> value, children |-> children]

\* An add_child that puts the child in front of its siblings.
add_child_front(node, child) ==
    [node EXCEPT !.loc = IF Len(node.children) = 0 THEN child.loc ELSE @,
                 !.children = <<child>> \o @]

\* An add_child that leaves the node's location alone.
add_child_keep_loc(node, child) == [node EXCEPT !.children = Append(@, child)]

\* ParseNode::add_child
add_child(node, child) ==
    [node EXCEPT !.loc = IF Len(node.children) = 0 THEN child.loc ELSE @,
                 !.children = Append(@, child)]

\* ------------------------------------------------------ token.rs, continued

\* An extract_value that has a value for operators only.
extract_value_operator(token) ==
    IF token.class = "Operator" THEN Some(Display(token.value[1])) ELSE None

\* An extract_value that gives every token without a payload an empty text.
extract_value_all(token) ==
    IF token.class \in {"Identifier", "Keyword", "Literal", "Error", "Number", "Boolean"}
    THEN Some(token.value)
    ELSE IF token.class = "Operator" THEN Some(Display(token.value[1]))
    ELSE Some(<<>>)

\* Token::extract_value
extract_value(token) ==
    IF token.class \in {"Identifier", "Keyword", "Literal", "Error", "Number", "Boolean"}
    THEN Some(token.value)
    ELSE IF token.class = "Operator" THEN Some(Display(token.value[1]))
    ELSE None

\* impl Display for Token
TokenDisplay(token) ==
    CASE token.class = "Identifier" -> <<"IDENTIFIER: ">> \o token.value
      [] token.class = "Keyword" -> <<"KEYWORD: ">> \o token.value
      [] token.class = "Operator" -> <<"OPERATOR: ">> \o Display(token.value[1])
      [] token.class = "Literal" -> <<"STRING: ">> \o token.value
      [] token.class = "Number" -> <<"NUMBER: ">> \o token.value
      [] token.class = "Boolean" -> <<"Boolean: ">> \o token.value
      [] token.class = "Lparen" -> <<"(">>
      [] token.class = "Rparen" -> <<")">>
      [] token.class = "LCurly" -> <<"{">>
      [] token.class = "RCurly" -> <<"}">>
      [] token.class = "Semi" -> <<";">>
      [] token.class = "Comma" -> <<",">>
      [] token.class = "Assignment" -> <<"=">>
      [] token.class = "Error" -> <<"Failed to convert to token: ">> \o token.value

\* ------------------------------------------- recursive_descent_parser.rs
\* A ParserResult together with the lexer the call leaves behind.

UnexpectedToken(expected, actual) ==
    [kind |-> "UnexpectedToken", expected |-> expected, actual |-> actual]

LexerError == [kind |-> "LexerError", expected |-> <<>>, actual |-> <<>>]

Ok(lx, node) == [ok |-> TRUE, lx |-> lx, node |-> node, err |-> None]
Err(lx, e) == [ok |-> FALSE, lx |-> lx, node |-> None, err |-> Some(e)]

\* The node a production starts from.
Seed(lx, kind) == Ok(lx, ParseNode(Loc(1, 1), kind, None, <<>>))

At(s, lx) == [s EXCEPT !.lx = lx]

\* A leaf with the line and the column of its token exchanged.
LeafSwapped(info, kind) ==
    ParseNode(Loc(info.start_column, info.line), kind, extract_value(info.token), <<>>)

\* The leaf eat and eat_exact build from a token.
Leaf(info, kind) ==
    ParseNode(Loc(info.line, info.start_column), kind, extract_value(info.token), <<>>)

\* An actual_token that is empty at the end of the input.
ActualEmpty(pk) == IF IsSome(pk.val) THEN TokenDisplay(Unwrap(pk.val).token) ELSE <<>>

\* actual_token: the peeked token's text, or Unknown.
Actual(pk) == IF IsSome(pk.val) THEN TokenDisplay(Unwrap(pk.val).token) ELSE <<"Unknown">>

\* self.lexer.next()?; Ok(node)
EatNext(node, nx) == IF nx.ok THEN Ok(nx.lx, node) ELSE Err(nx.lx, LexerError)

EatPeekedTaking(inp, token, pk) ==
    IF IsSome(pk.val) /\ Unwrap(pk.val).token.class = token
    THEN EatNext(Leaf(Unwrap(pk.val), token), next(inp, pk.lx))
    ELSE Err(next(inp, pk.lx).lx, UnexpectedToken(<<token>>, Actual(pk)))

EatPeeked(inp, token, pk) ==
    IF IsSome(pk.val) /\ Unwrap(pk.val).token.class = token
    THEN EatNext(Leaf(Unwrap(pk.val), token), next(inp, pk.lx))
    ELSE Err(pk.lx, UnexpectedToken(<<token>>, Actual(pk)))

\* RecursiveDescentParser::eat
eat(inp, lx, token) == EatPeeked(inp, token, peek(inp, lx))

RECURSIVE JoinOrComma(_)
JoinOrComma(tokens) ==
    IF tokens = <<>> THEN <<>>
    ELSE IF Len(tokens) = 1 THEN tokens
    ELSE <<Head(tokens), ", ">> \o JoinOrComma(Tail(tokens))

\* buffer: the class names joined by " or ".
RECURSIVE JoinOr(_)
JoinOr(tokens) ==
    IF tokens = <<>> THEN <<>>
    ELSE IF Len(tokens) = 1 THEN tokens
    ELSE <<Head(tokens), " or ">> \o JoinOr(Tail(tokens))

NoneOf(tokens, pk) == Err(pk.lx, UnexpectedToken(JoinOr(tokens), Actual(pk)))

RECURSIVE eat_any_of_from(_, _, _, _)

EatTried(inp, tokens, i, r) == IF r.ok THEN r ELSE eat_any_of_from(inp, r.lx, tokens, i + 1)

eat_any_of_from(inp, lx, tokens, i) ==
    IF i > Len(tokens) THEN NoneOf(tokens, peek(inp, lx))
    ELSE EatTried(inp, tokens, i, eat(inp, lx, tokens[i]))

\* RecursiveDescentParser::eat_any_of
eat_any_of(inp, lx, tokens) == eat_any_of_from(inp, lx, tokens, 1)

EatExactNext(token, nx) ==
    IF ~nx.ok THEN Err(nx.lx, LexerError)
    ELSE IF nx.info.token = token
    THEN Ok(nx.lx, Leaf(nx.info, nx.info.token.class))
    ELSE Err(nx.lx, UnexpectedToken(TokenDisplay(token), TokenDisplay(nx.info.token)))

\* RecursiveDescentParser::eat_exact
eat_exact(inp, lx, token) == EatExactNext(token, next(inp, lx))

\* What an is_next... call hands back: its answer and the lexer it leaves.
Answer(lx, val) == [lx |-> lx, val |-> val]

IsNextExact(token, pk) ==
    Answer(pk.lx, IF IsSome(pk.val) THEN Unwrap(pk.val).token = token ELSE FALSE)

\* RecursiveDescentParser::is_next_exact
is_next_exact(inp, lx, token) == IsNextExact(token, peek(inp, lx))

IsNext(token, pk) ==
    Answer(pk.lx, IF IsSome(pk.val) THEN Unwrap(pk.val).token.class = token ELSE FALSE)

\* RecursiveDescentParser::is_next
is_next(inp, lx, token) == IsNext(token, peek(inp, lx))

RECURSIVE is_next_exact_any_of_from(_, _, _, _)

IsNextExactTried(inp, tokens, i, a) ==
    IF a.val THEN a ELSE is_next_exact_any_of_from(inp, a.lx, tokens, i + 1)

is_next_exact_any_of_from(inp, lx, tokens, i) ==
    IF i > Len(tokens) THEN Answer(lx, FALSE)
    ELSE IsNextExactTried(inp, tokens, i, is_next_exact(inp, lx, tokens[i]))

\* RecursiveDescentParser::is_next_exact_any_of
is_next_exact_any_of(inp, lx, tokens) == is_next_exact_any_of_from(inp, lx, tokens, 1)

\* node.add_child(r?) for the result r of a call made on s.lx
AddChild(s, r) ==
    IF r.ok THEN [s EXCEPT !.lx = r.lx, !.node = add_child(s.node, r.node)] ELSE r

\* node.add_child(self.eat(&token)?), skipped once an earlier ? has returned
AddEat(inp, s, token) == IF s.ok THEN AddChild(s, eat(inp, s.lx, token)) ELSE s

\* node.add_child(self.eat_exact(&token)?)
AddEatExact(inp, s, token) == IF s.ok THEN AddChild(s, eat_exact(inp, s.lx, token)) ELSE s

RECURSIVE parse_expression(_, _)
RECURSIVE parse_statement(_, _)
RECURSIVE parse_block(_, _)

\* node.add_child(self.parse_expression()?)
AddExpression(inp, s) == IF s.ok THEN AddChild(s, parse_expression(inp, s.lx)) ELSE s

\* node.add_child(self.parse_block()?)
AddBlock(inp, s) == IF s.ok THEN AddChild(s, parse_block(inp, s.lx)) ELSE s

\* let l_paren = self.eat(&Lparen)?; expression.loc = l_paren.loc.clone();
\* expression.add_child(l_paren);
AddLparen(s, r) ==
    IF r.ok
    THEN [s EXCEPT !.lx = r.lx, !.node = add_child([s.node EXCEPT !.loc = r.node.loc], r.node)]
    ELSE r

\* A first if that takes nothing where a right parenthesis follows.
ExpressionHeadOptional(inp, s, paren) ==
    IF paren.val
    THEN AddEat(inp, AddExpression(inp, AddLparen(s, eat(inp, paren.lx, "Lparen"))), "Rparen")
    ELSE IF is_next(inp, paren.lx, "Rparen").val THEN At(s, is_next(inp, paren.lx, "Rparen").lx)
    ELSE AddChild(s, eat_any_of(inp, paren.lx, <<"Identifier", "Boolean", "Number", "Literal">>))

\* The first if of parse_expression.
ExpressionHead(inp, s, paren) ==
    IF paren.val
    THEN AddEat(inp, AddExpression(inp, AddLparen(s, eat(inp, paren.lx, "Lparen"))), "Rparen")
    ELSE AddChild(s, eat_any_of(inp, paren.lx, <<"Identifier", "Boolean", "Number", "Literal">>))

ExpressionOperatorAlone(inp, s, operator) ==
    IF operator.val THEN AddEat(inp, At(s, operator.lx), "Operator")
    ELSE At(s, operator.lx)

\* else if self.is_next(&TokenClass::Operator)
ExpressionOperator(inp, s, operator) ==
    IF operator.val THEN AddExpression(inp, AddEat(inp, At(s, operator.lx), "Operator"))
    ELSE At(s, operator.lx)

\* if self.is_next_exact(&Token::Operator(Operator::Increment))
ExpressionIncrement(inp, s, increment) ==
    IF increment.val THEN AddEat(inp, At(s, increment.lx), "Operator")
    ELSE ExpressionOperator(inp, s, is_next(inp, increment.lx, "Operator"))

ExpressionTail(inp, s) ==
    IF s.ok THEN ExpressionIncrement(inp, s, is_next_exact(inp, s.lx, Operator("Increment")))
    ELSE s

\* RecursiveDescentParser::parse_expression
parse_expression(inp, lx) ==
    ExpressionTail(inp, ExpressionHead(inp, Seed(lx, "Expression"), is_next(inp, lx, "Lparen")))

\* while !self.is_next(&TokenClass::RCurly) { block.add_child(self.parse_statement()?); }
RECURSIVE BlockStatements(_, _)

BlockStatement(inp, s, rcurly) ==
    IF rcurly.val THEN At(s, rcurly.lx)
    ELSE BlockStatements(inp, AddChild(s, parse_statement(inp, rcurly.lx)))

BlockStatements(inp, s) ==
    IF s.ok THEN BlockStatement(inp, s, is_next(inp, s.lx, "RCurly")) ELSE s

\* RecursiveDescentParser::parse_block
parse_block(inp, lx) ==
    AddEat(inp, BlockStatements(inp, AddEat(inp, Seed(lx, "Block"), "LCurly")), "RCurly")

\* RecursiveDescentParser::parse_control_flow_block
parse_control_flow_block(inp, lx) ==
    AddBlock(inp,
       AddEat(inp,
          AddExpression(inp, AddEat(inp, Seed(lx, "ControlFlowBlock"), "Lparen")),
          "Rparen"))

\* while !self.is_next(&TokenClass::Semi) { statement.add_child(self.parse_expression()?); }
RECURSIVE AssignmentExpressions(_, _)

AssignmentExpression(inp, s, semi) ==
    IF semi.val THEN At(s, semi.lx)
    ELSE AssignmentExpressions(inp, AddChild(s, parse_expression(inp, semi.lx)))

AssignmentExpressions(inp, s) ==
    IF s.ok THEN AssignmentExpression(inp, s, is_next(inp, s.lx, "Semi")) ELSE s

\* RecursiveDescentParser::parse_assignment_statement
parse_assignment_statement(inp, lx) ==
    AddEat(inp,
       AssignmentExpressions(inp,
          AddEat(inp,
             AddEat(inp, AddEat(inp, Seed(lx, "AssignmentStatement"), "Keyword"), "Identifier"),
             "Assignment")),
       "Semi")

\* statement.add_child(self.parse_assignment_statement()?)
AddAssignment(inp, s) ==
    IF s.ok THEN AddChild(s, parse_assignment_statement(inp, s.lx)) ELSE s

\* RecursiveDescentParser::parse_for_loop_statement
parse_for_loop_statement(inp, lx) ==
    AddBlock(inp,
       AddEat(inp,
          AddExpression(inp,
             AddEat(inp,
                AddExpression(inp,
                   AddAssignment(inp,
                      AddEat(inp, AddEat(inp, Seed(lx, "ForLoopStatement"), "Keyword"), "Lparen"))),
                "Semi")),
          "Rparen"))

\* statement.add_child(self.parse_control_flow_block()?)
AddControlFlowBlock(inp, s) ==
    IF s.ok THEN AddChild(s, parse_control_flow_block(inp, s.lx)) ELSE s

\* RecursiveDescentParser::parse_condition_statement
parse_condition_statement(inp, lx) ==
    AddControlFlowBlock(inp, AddEat(inp, Seed(lx, "ConditionStatement"), "Keyword"))

\* RecursiveDescentParser::parse_argument
parse_argument(inp, lx) ==
    AddEat(inp, AddEat(inp, Seed(lx, "Argument"), "Keyword"), "Identifier")

\* while !self.is_next(&TokenClass::Rparen) { statement.add_child(self.parse_argument()?); }
RECURSIVE ArgumentsList(_, _)

ArgumentsItem(inp, s, rparen) ==
    IF rparen.val THEN At(s, rparen.lx)
    ELSE ArgumentsList(inp, AddChild(s, parse_argument(inp, rparen.lx)))

ArgumentsList(inp, s) ==
    IF s.ok THEN ArgumentsItem(inp, s, is_next(inp, s.lx, "Rparen")) ELSE s

\* RecursiveDescentParser::parse_arguments
parse_arguments(inp, lx) ==
    AddEat(inp, ArgumentsList(inp, AddEat(inp, Seed(lx, "Arguments"), "Lparen")), "Rparen")

\* statement.add_child(self.parse_arguments()?)
AddArguments(inp, s) == IF s.ok THEN AddChild(s, parse_arguments(inp, s.lx)) ELSE s

\* Token::Operator(Operator::Pointer): operator.rs has no such operator and
\* no lexeme for it, so that no token the lexer returns equals it.
Pointer == Operator("Pointer")

\* RecursiveDescentParser::parse_function_definition
parse_function_definition(inp, lx) ==
    AddBlock(inp,
       AddEat(inp,
          AddEatExact(inp,
             AddArguments(inp,
                AddEat(inp,
                   AddEatExact(inp, Seed(lx, "FunctionDefinition"), Keyword(<<"f", "n">>)),
                   "Identifier")),
             Pointer),
          "Keyword"))

\* while !self.is_next(&TokenClass::Semi) { statement.add_child(self.parse_expression()?); }
RECURSIVE ReturnExpressions(_, _)

ReturnExpression(inp, s, semi) ==
    IF semi.val THEN At(s, semi.lx)
    ELSE ReturnExpressions(inp, AddChild(s, parse_expression(inp, semi.lx)))

ReturnExpressions(inp, s) ==
    IF s.ok THEN ReturnExpression(inp, s, is_next(inp, s.lx, "Semi")) ELSE s

\* RecursiveDescentParser::parse_return_statement
parse_return_statement(inp, lx) ==
    AddEat(inp,
       ReturnExpressions(inp,
          AddEatExact(inp, Seed(lx, "ReturnStatement"),
                      Keyword(<<"r", "e", "t", "u", "r", "n">>))),
       "Semi")

\* The arms of parse_keyword_statement, in order.
KeywordReturn(inp, return) ==
    IF return.val THEN parse_return_statement(inp, return.lx)
    ELSE parse_assignment_statement(inp, return.lx)

KeywordFn(inp, fn) ==
    IF fn.val THEN parse_function_definition(inp, fn.lx)
    ELSE KeywordReturn(inp, is_next_exact(inp, fn.lx, Keyword(<<"r", "e", "t", "u", "r", "n">>)))

KeywordFor(inp, for) ==
    IF for.val THEN parse_for_loop_statement(inp, for.lx)
    ELSE KeywordFn(inp, is_next_exact(inp, for.lx, Keyword(<<"f", "n">>)))

KeywordConditional(inp, conditional) ==
    IF conditional.val THEN parse_condition_statement(inp, conditional.lx)
    ELSE KeywordFor(inp, is_next_exact(inp, conditional.lx, Keyword(<<"f", "o", "r">>)))

parse_keyword_statement_if(inp, lx) ==
    KeywordConditional(inp, is_next_exact_any_of(inp, lx, <<Keyword(<<"i", "f">>)>>))

\* RecursiveDescentParser::parse_keyword_statement
parse_keyword_statement(inp, lx) ==
    KeywordConditional(inp,
       is_next_exact_any_of(inp, lx, <<Keyword(<<"i", "f">>),
                                       Keyword(<<"w", "h", "i", "l", "e">>)>>))

\* RecursiveDescentParser::parse_function_call_statement
parse_function_call_statement(inp, lx) ==
    AddEat(inp,
       AddEat(inp,
          AddExpression(inp,
             AddEat(inp, AddEat(inp, Seed(lx, "FunctionCall"), "Identifier"), "Lparen")),
          "Rparen"),
       "Semi")

StatementOf(inp, keyword) ==
    IF keyword.val THEN parse_keyword_statement(inp, keyword.lx)
    ELSE parse_function_call_statement(inp, keyword.lx)

\* RecursiveDescentParser::parse_statement
parse_statement(inp, lx) == StatementOf(inp, is_next(inp, lx, "Keyword"))

\* while let Some(_) = self.lexer.peek() { root.add_child(self.parse_statement()?); }
RECURSIVE ProgramStatements(_, _)

ProgramStatement(inp, s, pk) ==
    IF IsSome(pk.val) THEN ProgramStatements(inp, AddChild(s, parse_statement(inp, pk.lx)))
    ELSE At(s, pk.lx)

ProgramStatements(inp, s) == IF s.ok THEN ProgramStatement(inp, s, peek(inp, s.lx)) ELSE s

\* RecursiveDescentParser::parse_program
parse_program(inp, lx) == ProgramStatements(inp, Seed(lx, "Program"))

\* RecursiveDescentParser::parse
parse(inp, lx) == parse_program(inp, lx)

\* ------------------------------------------ the parser as a state machine

\* Lexemes, and lists of lexemes.
IntWord == <<"i", "n", "t">>
IfWord == <<"i", "f">>
ForWord == <<"f", "o", "r">>
FnWord == <<"f", "n">>
ReturnWord == <<"r", "e", "t", "u", "r", "n">>

Atoms == {<<"a">>, <<"1">>}

\* The expressions nested at most n deep, as lists of lexemes.
RECURSIVE Exprs(_)
Exprs(n) ==
    IF n = 0 THEN {<< x >> : x \in Atoms}
    ELSE Exprs(n - 1)
         \cup {<< <<"(">> >> \o e \o << <<")">> >> : e \in Exprs(n - 1)}
         \cup {<< x, <<"+">> >> \o e : x \in Atoms, e \in Exprs(n - 1)}
         \cup {<< x, <<"+", "+">> >> : x \in Atoms}

\* int a = e1 .. ek ;   return e1 .. ek ;   a ( e ) ;
ExprLists ==
    {Flatten(es) : es \in SeqsUpTo({<< x >> : x \in Atoms}, MaxExprs)}
    \cup Exprs(MaxNest)

SimpleStmts ==
    {<<IntWord, <<"a">>, <<"=">> >> \o es \o << <<";">> >> : es \in ExprLists}
    \cup {<<ReturnWord>> \o es \o << <<";">> >> : es \in ExprLists}
    \cup {<< <<"a">>, <<"(">> >> \o e \o << <<")">>, <<";">> >> : e \in Exprs(MaxNest)}

\* One statement of each simple kind, for the bodies of blocks and for
\* programs of several statements.
CoreStmts ==
    { <<IntWord, <<"a">>, <<"=">>, <<"1">>, <<";">> >>,
      <<ReturnWord, <<"a">>, <<";">> >>,
      << <<"a">>, <<"(">>, <<"1">>, <<")">>, <<";">> >> }

Bodies == {Flatten(ss) : ss \in SeqsUpTo(CoreStmts, MaxStmts - 1)}

\* if ( e ) { body }   for ( int a = 1 ; e ; a ++ ) { body }
\* fn a ( int a ) -> int { body }
BlockStmts ==
    {<<IfWord, <<"(">> >> \o e \o << <<")">>, <<"{">> >> \o b \o << <<"}">> >> :
        e \in Exprs(0), b \in Bodies}
    \cup {<<ForWord, <<"(">>, IntWord, <<"a">>, <<"=">>, <<"1">>, <<";">> >> \o e
          \o << <<";">>, <<"a">>, <<"+", "+">>, <<")">>, <<"{">> >> \o b \o << <<"}">> >> :
        e \in Exprs(0), b \in Bodies}
    \cup {<<FnWord, <<"a">>, <<"(">>, IntWord, <<"a">>, <<")">>, <<"-", ">">>, IntWord, <<"{">> >>
          \o b \o << <<"}">> >> :
        b \in Bodies}

\* The programs: one statement of any kind, or up to MaxStmts statements with
\* at most one block statement among them.
ProgramLexemes ==
    SimpleStmts \cup BlockStmts
    \cup {Flatten(ss) : ss \in SeqsUpTo(CoreStmts, MaxStmts)}
    \cup {c \o b : c \in CoreStmts, b \in BlockStmts}

\* The lexemes of a list, each followed by sep.
RECURSIVE Spell(_, _)
Spell(lexemes, sep) ==
    IF lexemes = <<>> THEN <<>> ELSE Head(lexemes) \o sep \o Spell(Tail(lexemes), sep)

Separators == {<<" ">>, <<NL>>, <<>>}

\* int a = 3;
IntA3 == <<"i", "n", "t", " ", "a", " ", "=", " ", "3", ";">>

\* int a = ;
IntANothing == <<"i", "n", "t", " ", "a", " ", "=", " ", ";">>

\* int a = 1 2;
IntA12 == <<"i", "n", "t", " ", "a", " ", "=", " ", "1", " ", "2", ";">>

\* fn f ( int a ) -> int { }
FnF == <<"f", "n", " ", "f", " ", "(", " ", "i", "n", "t", " ", "a", " ", ")", " ", "-", ">", " ",
         "i", "n", "t", " ", "{", " ", "}">>

\* int a
IntA == <<"i", "n", "t", " ", "a">>

\* int a = "b" "" true;
IntTexts == <<"i", "n", "t", " ", "a", " ", "=", " ", "\"", "b", "\"", " ", "\"", "\"", " ",
              "t", "r", "u", "e", ";">>

\* The lexemes of the operators, and of those that are not ++.
OperatorLexemes == {Display(o) : o \in Operators}
BinaryLexemes == {Display(o) : o \in Operators \ {"Increment"}}

\* int a = a o1 1 o2 a ;
ChainOf(o1, o2) ==
    Spell(<<IntWord, <<"a">>, <<"=">>, <<"a">>, o1, <<"1">>, o2, <<"a">>, <<";">> >>, <<" ">>)

\* int a = a o ;   and   int a = a o
OperandMissing(o, end) == Spell(<<IntWord, <<"a">>, <<"=">>, <<"a">>, o>> \o end, <<" ">>)

\* int a = a ++ o 1 ;
AfterIncrement(o) ==
    Spell(<<IntWord, <<"a">>, <<"=">>, <<"a">>, <<"+", "+">>, o, <<"1">>, <<";">> >>, <<" ">>)

\* int a = a ++ 1 ;
IntAIncrement1 ==
    Spell(<<IntWord, <<"a">>, <<"=">>, <<"a">>, <<"+", "+">>, <<"1">>, <<";">> >>, <<" ">>)

Ends == {<< <<";">> >>, <<>>}

\* Assignments whose expression is a chain of operators, an operator with
\* nothing after it, or has something after ++.
OperatorChains ==
    {ChainOf(o1, o2) : o1 \in BinaryLexemes, o2 \in BinaryLexemes}
    \cup {OperandMissing(o, end) : o \in OperatorLexemes, end \in Ends}
    \cup {AfterIncrement(o) : o \in OperatorLexemes}
    \cup {IntAIncrement1}

\* Every program and every program cut short, spelled with each separator,
\* the inputs of blanks only, the six inputs above, and the chains of
\* operators.
Programs ==
    UNION {{Spell(SubSeq(p, 1, k), sep) : k \in 0..Len(p), sep \in Separators} :
              p \in ProgramLexemes}
    \cup Blanks \cup {IntA3, IntANothing, IntA12, FnF, IntA, IntTexts}
    \cup OperatorChains

InitParser == input \in Programs /\ Fresh

Parsed(r) ==
    /\ SetLexer(r.lx)
    /\ op' = "parse"
    /\ res' = [ok |-> r.ok, node |-> r.node, err |-> r.err]
    /\ UNCHANGED <<input, readerObs, lexerObs>>

\* parser.parse() on a parser made of a new lexer
Parse == op = "new" /\ Parsed(parse(input, CurLexer))

\* The tokens handed to eat_exact: keywords the parser asks for by value,
\* and one keyword it never asks for.
ExactTokens ==
    {Keyword(<<"f","n">>), Keyword(<<"r","e","t","u","r","n">>),
     Keyword(<<"i","f">>), Keyword(<<"i","n","t">>)}

\* The parser after one eat_exact call: the lexer the call leaves, the token
\* it was asked for and what it returned.
EatExactDone(token, r) ==
    /\ SetLexer(r.lx)
    /\ op' = "eat_exact"
    /\ res' = [token |-> token, ok |-> r.ok, node |-> r.node, err |-> r.err]
    /\ UNCHANGED <<input, readerObs, lexerObs>>

\* eat_exact as the first call on a new parser.
EatExact ==
    /\ op = "new"
    /\ \E token \in ExactTokens : EatExactDone(token, eat_exact(input, CurLexer, token))

NextParser == Parse \/ EatExact

SpecParser == InitParser /\ [][NextParser]_vars

TokenKinds ==
    {"Identifier", "Keyword", "Operator", "Literal", "Number", "Boolean", "Lparen", "Rparen",
     "LCurly", "RCurly", "Semi", "Comma", "Assignment", "Error"}

\* The nodes of a token kind under a node, in preorder.
RECURSIVE Leaves(_)
Leaves(node) ==
    IF node.kind \in TokenKinds THEN <<node>>
    ELSE Flatten([i \in 1..Len(node.children) |-> Leaves(node.children[i])])

\* The leaf that stands for a token: its class, its text and its position.
LeafOf(info) ==
    [loc |-> [line |-> info.line, column |-> info.start_column],
     kind |-> info.token.class,
     value |-> IF info.token.class = "Operator" THEN Some(Display(info.token.value[1]))
               ELSE IF info.token.class \in {"Lparen", "Rparen", "LCurly", "RCurly", "Semi",
                                             "Comma", "Assignment"}
               THEN None ELSE Some(info.token.value),
     children |-> <<>>]

\* The leaves a list of tokens makes.
LeavesOf(tokens) == [i \in 1..Len(tokens) |-> LeafOf(tokens[i])]

\* C1: the leaves of a tree parse() returns are, in preorder, the tokens of
\* the input in the order the lexer emits them, each once, and the lexer has
\* no token left.
C1_LeavesAreTokens ==
    (op = "parse" /\ res.ok) =>
       /\ Leaves(res.node) = LeavesOf(TokenStream(input))
       /\ ~next(input, CurLexer).ok

\* A program of a statement and a block statement with a statement in it was parsed.
C1_Witness ==
    /\ op = "parse"
    /\ res.ok
    /\ Len(res.node.children) = 2
    /\ res.node.children[2].kind = "ConditionStatement"
    /\ Len(Leaves(res.node)) >= 15

\* Leaf by leaf, the location is the line and start column of the token at
\* that place.
LocatedAt(leaves, tokens) ==
    /\ Len(leaves) = Len(tokens)
    /\ \A i \in 1..Len(leaves) :
          /\ leaves[i].loc.line = tokens[i].line
          /\ leaves[i].loc.column = tokens[i].start_column

\* C13: in a tree parse() returns, every leaf, of eat or of eat_exact, has
\* the line and the start column of the token it was built from.
C13_LeafLocation ==
    (op = "parse" /\ res.ok) => LocatedAt(Leaves(res.node), TokenStream(input))

\* A return statement over three lines was parsed: its first leaf is of
\* eat_exact, the others of eat.
C13_Witness ==
    /\ op = "parse"
    /\ res.ok
    /\ Len(res.node.children) = 1
    /\ res.node.children[1].kind = "ReturnStatement"
    /\ Len(Leaves(res.node)) = 3
    /\ Leaves(res.node)[1].loc = Loc(1, 1)
    /\ Leaves(res.node)[3].loc = Loc(3, 1)
\* A node and all the nodes under it.
RECURSIVE Nodes(_)
Nodes(node) == {node} \cup UNION {Nodes(node.children[i]) : i \in 1..Len(node.children)}

\* C14: in a tree parse() returns a structural node with children is located
\* at its first child, and so at its leftmost leaf; one without children is
\* located at (1,1), as the Program of an input of whitespace only is.
C14_NodeLocation ==
    op = "parse" =>
       /\ res.ok =>
             \A n \in Nodes(res.node) :
                n.kind \notin TokenKinds =>
                   IF Len(n.children) > 0
                   THEN n.loc = n.children[1].loc /\ n.loc = Leaves(n)[1].loc
                   ELSE n.loc = Loc(1, 1)
       /\ (\A i \in 1..Len(input) : is_whitespace(input[i])) =>
             /\ res.ok
             /\ res.node = ParseNode(Loc(1, 1), "Program", None, <<>>)

\* A tree was returned that has a block with a statement in it, the block
\* not on the first line.
C14_Witness ==
    /\ op = "parse"
    /\ res.ok
    /\ \E n \in Nodes(res.node) :
          n.kind = "Block" /\ Len(n.children) = 3 /\ n.loc.line > 1 /\ n.loc = Leaves(n)[1].loc
\* C15: int a = 3; is parsed to a Program of one AssignmentStatement, whose
\* children are Keyword int at 1:1, Identifier a at 1:5, Assignment at 1:7,
\* an Expression of the one child Number 3 at 1:9, and Semi at 1:10.
C15_IntA3 ==
    (op = "parse" /\ input = IntA3) =>
       /\ res.ok
       /\ res.node.kind = "Program"
       /\ Len(res.node.children) = 1
       /\ res.node.children[1].kind = "AssignmentStatement"
       /\ Len(res.node.children[1].children) = 5
       /\ res.node.children[1].children[1] =
             ParseNode(Loc(1, 1), "Keyword", Some(<<"i", "n", "t">>), <<>>)
       /\ res.node.children[1].children[2] = ParseNode(Loc(1, 5), "Identifier", Some(<<"a">>), <<>>)
       /\ res.node.children[1].children[3] = ParseNode(Loc(1, 7), "Assignment", None, <<>>)
       /\ res.node.children[1].children[4].kind = "Expression"
       /\ res.node.children[1].children[4].children =
             <<ParseNode(Loc(1, 9), "Number", Some(<<"3">>), <<>>)>>
       /\ res.node.children[1].children[5] = ParseNode(Loc(1, 10), "Semi", None, <<>>)

\* int a = 3; was parsed, to a tree.
C15_Witness == op = "parse" /\ input = IntA3 /\ res.ok /\ line = 1 /\ column = 10
StatementKinds ==
    {"AssignmentStatement", "ConditionStatement", "ForLoopStatement", "ReturnStatement",
     "FunctionDefinition", "FunctionCall"}

\* The kinds of a node's children, in order.
Kinds(n) == [i \in 1..Len(n.children) |-> n.children[i].kind]

\* The statements of a Program, or of a Block between its curly brackets.
Statements(n) ==
    IF n.kind = "Program" THEN n.children
    ELSE IF n.kind = "Block" THEN SubSeq(n.children, 2, Len(n.children) - 1)
    ELSE <<>>

AllOf(kinds, kind) == \A i \in 1..Len(kinds) : kinds[i] = kind

\* The children of a node are those of the production its kind names.
Shaped(n) ==
    CASE n.kind = "Program" -> \A i \in 1..Len(n.children) : n.children[i].kind \in StatementKinds
      [] n.kind = "Block" ->
            /\ Len(n.children) >= 2
            /\ n.children[1].kind = "LCurly"
            /\ n.children[Len(n.children)].kind = "RCurly"
            /\ \A i \in 2..(Len(n.children) - 1) : n.children[i].kind \in StatementKinds
      [] n.kind = "ConditionStatement" -> Kinds(n) = <<"Keyword", "ControlFlowBlock">>
      [] n.kind = "ControlFlowBlock" -> Kinds(n) = <<"Lparen", "Expression", "Rparen", "Block">>
      [] n.kind = "ForLoopStatement" ->
            Kinds(n) = <<"Keyword", "Lparen", "AssignmentStatement", "Expression", "Semi",
                         "Expression", "Rparen", "Block">>
      [] n.kind = "AssignmentStatement" ->
            /\ Len(n.children) >= 4
            /\ SubSeq(Kinds(n), 1, 3) = <<"Keyword", "Identifier", "Assignment">>
            /\ AllOf(SubSeq(Kinds(n), 4, Len(n.children) - 1), "Expression")
            /\ n.children[Len(n.children)].kind = "Semi"
      [] n.kind = "ReturnStatement" ->
            /\ Len(n.children) >= 2
            /\ n.children[1].kind = "Keyword"
            /\ AllOf(SubSeq(Kinds(n), 2, Len(n.children) - 1), "Expression")
            /\ n.children[Len(n.children)].kind = "Semi"
      [] n.kind = "FunctionCall" ->
            Kinds(n) = <<"Identifier", "Lparen", "Expression", "Rparen", "Semi">>
      [] n.kind = "FunctionDefinition" ->
            Kinds(n) = <<"Keyword", "Identifier", "Arguments", "Operator", "Keyword", "Block">>
      [] n.kind = "Arguments" ->
            /\ Len(n.children) >= 2
            /\ n.children[1].kind = "Lparen"
            /\ AllOf(SubSeq(Kinds(n), 2, Len(n.children) - 1), "Argument")
            /\ n.children[Len(n.children)].kind = "Rparen"
      [] n.kind = "Argument" -> Kinds(n) = <<"Keyword", "Identifier">>
      [] n.kind = "Expression" ->
            /\ Len(n.children) >= 1
            /\ \/ n.children[1].kind \in {"Identifier", "Boolean", "Number", "Literal"}
               \/ /\ Len(n.children) >= 3
                  /\ SubSeq(Kinds(n), 1, 3) = <<"Lparen", "Expression", "Rparen">>
      [] n.kind \in TokenKinds -> n.children = <<>>
      [] OTHER -> FALSE

\* C16: every statement under a Program or a Block is a node of kind
\* Statement around the node of the specific statement.
C16_StatementWrapper ==
    (op = "parse" /\ res.ok) =>
       \A n \in Nodes(res.node) :
          \A i \in 1..Len(Statements(n)) :
             /\ Statements(n)[i].kind = "Statement"
             /\ Len(Statements(n)[i].children) = 1
             /\ Statements(n)[i].children[1].kind \in StatementKinds

\* What parse() builds instead: every node has the children of the production
\* its kind names, a statement under a Program or a Block is the node of the
\* specific statement itself, and no node has the kind Statement.
ProductionKinds ==
    (op = "parse" /\ res.ok) =>
       /\ res.node.kind = "Program"
       /\ \A n \in Nodes(res.node) :
             /\ n.kind # "Statement"
             /\ Shaped(n)
             /\ \A i \in 1..Len(Statements(n)) : Statements(n)[i].kind \in StatementKinds

\* The Expression children of a node.
Expressions(n) == SelectSeq(n.children, LAMBDA c : c.kind = "Expression")

\* C17: an AssignmentStatement has one Expression child or more; int a = ;
\* is rejected with UnexpectedToken, and int a = 1 2; is accepted with two
\* Expression children.
C17_OneOrMoreExpressions ==
    op = "parse" =>
       /\ res.ok =>
             \A n \in Nodes(res.node) :
                n.kind = "AssignmentStatement" => Len(Expressions(n)) >= 1
       /\ input = IntANothing => (~res.ok /\ Unwrap(res.err).kind = "UnexpectedToken")
       /\ input = IntA12 =>
             /\ res.ok
             /\ Len(res.node.children) = 1
             /\ Kinds(res.node.children[1]) =
                   <<"Keyword", "Identifier", "Assignment", "Expression", "Expression", "Semi">>
\* C18: fn f ( int a ) -> int { } is lexed to ten tokens, the -> one
\* Operator, and parsed to a FunctionDefinition of Keyword fn, Identifier,
\* Arguments, Operator, Keyword, Block.
C18_FunctionDefinition ==
    (op = "parse" /\ input = FnF) =>
       /\ Len(TokenStream(input)) = 10
       /\ TokenStream(input)[7].token.class = "Operator"
       /\ res.ok
       /\ Len(res.node.children) = 1
       /\ res.node.children[1].kind = "FunctionDefinition"
       /\ Kinds(res.node.children[1]) =
             <<"Keyword", "Identifier", "Arguments", "Operator", "Keyword", "Block">>
       /\ res.node.children[1].children[1].value = Some(<<"f", "n">>)
\* The programs without a function definition, which the grammar derives.
WholePrograms == {p \in ProgramLexemes : \A i \in 1..Len(p) : p[i] # FnWord}

\* Each of them cut short before its end, spelled with blanks or newlines.
CutShort ==
    UNION {{Spell(SubSeq(p, 1, k), sep) : k \in 0..(Len(p) - 1), sep \in {<<" ">>, <<NL>>}} :
           p \in WholePrograms}

ClassNames == {<<c>> : c \in TokenKinds}

\* C19: parse() on an input that ends where a token is still expected
\* returns an error and no tree; int a is reported as UnexpectedToken with
\* Assignment expected and Unknown met; a token missing from a program cut
\* short is reported as UnexpectedToken with the expected class, or classes,
\* and Unknown met; an error met before the end leaves the token it names as
\* the next one.
C19_MissingToken ==
    op = "parse" =>
       /\ input = IntA =>
             (~res.ok /\ res.err = Some(UnexpectedToken(<<"Assignment">>, <<"Unknown">>)))
       /\ ~res.ok => (res.node = None /\ IsSome(res.err))
       /\ (input \in CutShort /\ ~res.ok) =>
                /\ Unwrap(res.err).kind = "UnexpectedToken"
                /\ Unwrap(res.err).actual = <<"Unknown">>
                /\ ~next(input, CurLexer).ok
                /\ \/ Unwrap(res.err).expected \in ClassNames
                   \/ Unwrap(res.err).expected = JoinOr(<<"Identifier", "Boolean", "Number", "Literal">>)
       /\ ( /\ ~res.ok
            /\ Unwrap(res.err).kind = "UnexpectedToken"
            /\ Unwrap(res.err).actual # <<"Unknown">>
            /\ \/ Unwrap(res.err).expected \in ClassNames
               \/ Unwrap(res.err).expected = JoinOr(<<"Identifier", "Boolean", "Number", "Literal">>) )
          => /\ IsSome(peeked)
             /\ TokenDisplay(Unwrap(peeked).token) = Unwrap(res.err).actual

\* int a was parsed, to an error, with the whole input read.
C19_Witness ==
    /\ op = "parse"
    /\ input = IntA
    /\ ~res.ok
    /\ Unwrap(res.err).expected = <<"Assignment">>
    /\ pos = 5

\* ------------------------------------------ the loops of the parser, one
\* iteration at a time

\* a ( ) ;
CallNothing == <<"a", " ", "(", " ", ")", " ", ";">>

\* fn f ( int a int b
FnTwo == <<"f", "n", " ", "f", " ", "(", " ", "i", "n", "t", " ", "a", " ",
           "i", "n", "t", " ", "b">>

\* The statements spelled with blanks, the inputs above, inputs that end
\* inside each loop, and statements that start with each keyword.
\* Each keyword before   a = 1 ;   and before   ( a ) { }
KeywordStarts ==
    {Spell(<<KEYWORDS[i]>> \o tail, <<" ">>) :
        i \in DOMAIN KEYWORDS,
        tail \in { << <<"a">>, <<"=">>, <<"1">>, <<";">> >>,
                   << <<"(">>, <<"a">>, <<")">>, <<"{">>, <<"}">> >> }}

LoopInputs ==
    {Spell(p, <<" ">>) : p \in SimpleStmts \cup BlockStmts}
    \cup {IntA3, IntANothing, IntA12, FnF, IntA, CallNothing, FnTwo}
    \cup {Spell(SubSeq(p, 1, Len(p) - k), <<" ">>) : p \in BlockStmts \cup CoreStmts, k \in 1..2}
    \cup KeywordStarts

InitLoops == input \in LoopInputs /\ Fresh

\* The lexer is where calls of next() and peek() have left it.
Walking == op \in {"new", "next", "peek"}

LoopOps ==
    {"parse_program", "parse_block", "parse_arguments", "parse_assignment_statement",
     "parse_return_statement", "parse_expression"}

\* The body of a loop of production o has returned r.
Iterated(o, r) ==
    /\ SetLexer(r.lx)
    /\ op' = o
    /\ res' = [ok |-> r.ok, node |-> r.node, err |-> r.err]
    /\ UNCHANGED <<input, readerObs, lexerObs>>

ProgramBody(pk) ==
    IsSome(pk.val) /\ Iterated("parse_program", parse_statement(input, pk.lx))

\* while let Some(_) = self.lexer.peek() { root.add_child(self.parse_statement()?); }
ProgramIteration == Walking /\ ProgramBody(peek(input, CurLexer))

BlockBody(rcurly) ==
    ~rcurly.val /\ Iterated("parse_block", parse_statement(input, rcurly.lx))

\* while !self.is_next(&TokenClass::RCurly) { block.add_child(self.parse_statement()?); }
BlockIteration == Walking /\ BlockBody(is_next(input, CurLexer, "RCurly"))

ArgumentsBody(rparen) ==
    ~rparen.val /\ Iterated("parse_arguments", parse_argument(input, rparen.lx))

\* while !self.is_next(&TokenClass::Rparen) { statement.add_child(self.parse_argument()?); }
ArgumentsIteration == Walking /\ ArgumentsBody(is_next(input, CurLexer, "Rparen"))

ExpressionsBody(o, semi) == ~semi.val /\ Iterated(o, parse_expression(input, semi.lx))

\* while !self.is_next(&TokenClass::Semi) { statement.add_child(self.parse_expression()?); }
\* in parse_assignment_statement
AssignmentIteration ==
    Walking /\ ExpressionsBody("parse_assignment_statement", is_next(input, CurLexer, "Semi"))

\* the same loop in parse_return_statement
ReturnIteration ==
    Walking /\ ExpressionsBody("parse_return_statement", is_next(input, CurLexer, "Semi"))

\* expression.add_child(self.parse_expression()?) inside parse_expression
ExpressionCall == Walking /\ Iterated("parse_expression", parse_expression(input, CurLexer))

NextLoops ==
    \/ Walking /\ LexNext
    \/ Walking /\ LexPeek
    \/ ProgramIteration
    \/ BlockIteration
    \/ ArgumentsIteration
    \/ AssignmentIteration
    \/ ReturnIteration
    \/ ExpressionCall
    \/ Parse

SpecLoops == InitLoops /\ [][NextLoops]_vars

\* The tokens the lexer has still to deliver.
Remaining == Len(Drain(input, CurLexer))

\* The same after a step.
RemainingAfter ==
    Len(Drain(input, Lexer(line', column', Reader(pos', peeked_char', last_positions'), peeked')))

\* C20: parse() returns a tree with every token consumed, or an error and no
\* tree; an iteration of a loop of parse_program, parse_block,
\* parse_arguments, parse_assignment_statement or parse_return_statement,
\* and a call of parse_expression, that returns without an error leaves
\* fewer tokens to deliver than it found, so at the end of the input it
\* returns an error; every node it returns holds at least one token.
C20_Progress ==
    [][/\ op' = "parse" =>
             IF res'.ok THEN res'.node # None /\ res'.err = None /\ RemainingAfter = 0
             ELSE res'.node = None /\ IsSome(res'.err)
       /\ (op' \in LoopOps /\ res'.ok) =>
             /\ RemainingAfter < Remaining
             /\ \A n \in Nodes(res'.node) : Len(Leaves(n)) >= 1
       /\ (op' \in LoopOps /\ Remaining = 0) => ~res'.ok]_vars

\* An iteration of the loop of parse_block has read the five tokens of an
\* assignment, and the block ends after it.
C20_Witness ==
    /\ op = "parse_block"
    /\ res.ok
    /\ res.node.kind = "AssignmentStatement"
    /\ Len(Leaves(res.node)) = 5
    /\ is_next(input, CurLexer, "RCurly").val

\* The kinds of the leaves that carry text.
TextKinds == {"Identifier", "Keyword", "Number", "Literal", "Boolean", "Operator"}

\* Leaf by leaf, the value is the text of the token at that place, and an
\* operator's value is the lexeme of the token's operator.
ValuesOf(leaves, tokens) ==
    /\ Len(leaves) = Len(tokens)
    /\ \A i \in 1..Len(leaves) :
          leaves[i].kind \in TextKinds =>
             IF leaves[i].kind = "Operator"
             THEN /\ is_operator(Unwrap(leaves[i].value))
                  /\ <<OperatorFrom(Unwrap(leaves[i].value))>> = tokens[i].token.value
             ELSE leaves[i].value = Some(tokens[i].token.value)

\* C21: in a tree parse() returns a node has a value exactly when it is a
\* leaf of kind Identifier, Keyword, Number, Literal, Boolean or Operator;
\* the value is the text the token carries, and for an Operator it is the
\* lexeme the operator is made from.
C21_NodeValues ==
    (op = "parse" /\ res.ok) =>
       /\ \A n \in Nodes(res.node) :
             (n.value # None) <=> (n.children = <<>> /\ n.kind \in TextKinds)
       /\ ValuesOf(Leaves(res.node), TokenStream(input))

\* int a = "b" "" true; was parsed: the second literal has the empty text
\* as its value, and the boolean has true.
C21_Witness ==
    /\ op = "parse"
    /\ input = IntTexts
    /\ res.ok
    /\ Len(Leaves(res.node)) = 7
    /\ Leaves(res.node)[4].value = Some(<<"b">>)
    /\ Leaves(res.node)[5].value = Some(<<>>)
    /\ Leaves(res.node)[6].kind = "Boolean"
    /\ Leaves(res.node)[7].value = None

\* ------------------------------------- token.rs and operator.rs on values

\* enum Token, in the order of its declaration
TokenVariants ==
    <<"Identifier", "Keyword", "Operator", "Literal", "Number", "Boolean", "Lparen", "Rparen",
      "LCurly", "RCurly", "Semi", "Comma", "Assignment", "Error">>

\* std::mem::discriminant: the place of the token's variant in the enum
Discriminant(token) == CHOOSE i \in DOMAIN TokenVariants : TokenVariants[i] = token.class

\* Token::is_equal_discrimnant
is_equal_discrimnant(a, b) == Discriminant(a) = Discriminant(b)

\* A to_token_class that takes a Boolean for an Identifier.
to_token_class_merged(token) ==
    IF token.class = "Boolean" THEN "Identifier" ELSE token.class

\* Token::to_token_class
to_token_class(token) ==
    CASE token.class = "Identifier" -> "Identifier"
      [] token.class = "Keyword" -> "Keyword"
      [] token.class = "Operator" -> "Operator"
      [] token.class = "Literal" -> "Literal"
      [] token.class = "Number" -> "Number"
      [] token.class = "Boolean" -> "Boolean"
      [] token.class = "Lparen" -> "Lparen"
      [] token.class = "Rparen" -> "Rparen"
      [] token.class = "LCurly" -> "LCurly"
      [] token.class = "RCurly" -> "RCurly"
      [] token.class = "Semi" -> "Semi"
      [] token.class = "Comma" -> "Comma"
      [] token.class = "Assignment" -> "Assignment"
      [] token.class = "Error" -> "Error"

\* impl PartialEq<TokenClass> for Token
TokenEqClass(token, class) == to_token_class(token) = class

\* #[derive(PartialEq)] on Token: the same variant with the same payload
TokenEq(a, b) == a.class = b.class /\ a.value = b.value

Payloads == {<<"a">>, <<"a", "b">>}

\* The tokens: each variant with a payload with two payloads, two operators,
\* and the variants without a payload.
Tokens ==
    {Tok(c, v) : c \in {"Identifier", "Keyword", "Literal", "Number", "Boolean", "Error"},
                 v \in Payloads}
    \cup {Operator("Plus"), Operator("Increment")}
    \cup {Bare(c) : c \in {"Lparen", "Rparen", "LCurly", "RCurly", "Semi", "Comma",
                           "Assignment"}}

InitValues == input = <<>> /\ Fresh

Applied(o, v) ==
    /\ op = "new"
    /\ op' = o
    /\ res' = v
    /\ UNCHANGED <<input, readerVars, readerObs, lexerVars, lexerObs>>

\* token == class, and token.to_token_class()
EqClass ==
    \E t \in Tokens, c \in TokenKinds :
       Applied("eq_class",
               [token |-> t, class |-> c, eq |-> TokenEqClass(t, c), of |-> to_token_class(t)])

\* a == b, and a.is_equal_discrimnant(&b)
EqToken ==
    \E a \in Tokens, b \in Tokens :
       Applied("eq_token",
               [token |-> a, other |-> b, eq |-> TokenEq(a, b),
                discrimnant |-> is_equal_discrimnant(a, b)])

MaxOpLen == 2   \* longest text tried as an operator

OperatorChars == {"+", "-", "/", "*", "=", "<", ">", "&", "|", "x"}

OperatorWords == SeqsUpTo(OperatorChars, MaxOpLen)

TextOf(word, is, operator) ==
    [word |-> word, is |-> is, operator |-> operator,
     text |-> IF operator = "panic" THEN None ELSE Some(Display(operator))]

\* Operator::is_operator(word), Operator::from(word) and its display
OperatorOfText == \E w \in OperatorWords : Applied("from", TextOf(w, is_operator(w), OperatorFrom(w)))

OperatorOf(operator, text) ==
    [operator |-> operator, text |-> text, is |-> is_operator(text), from |-> OperatorFrom(text)]

\* operator.to_string(), Operator::is_operator and Operator::from of it
TextOfOperator == \E o \in Operators : Applied("display", OperatorOf(o, Display(o)))

NextValues == EqClass \/ EqToken \/ OperatorOfText \/ TextOfOperator

SpecValues == InitValues /\ [][NextValues]_vars

\* C22: token == class holds exactly when the token's tag is the class,
\* whatever its payload, and exactly when token.to_token_class() == class;
\* two tokens of one tag with different payloads are unequal and are equal by
\* is_equal_discrimnant, and tokens of different tags are equal by neither.
C22_TokenEqualsClass ==
    /\ op = "eq_class" =>
          /\ res.eq <=> (res.token.class = res.class)
          /\ res.eq <=> (res.of = res.class)
          /\ \A t \in Tokens : t.class = res.token.class => (TokenEqClass(t, res.class) <=> res.eq)
    /\ op = "eq_token" =>
          /\ res.discrimnant <=> (res.token.class = res.other.class)
          /\ res.eq <=> (res.token = res.other)
          /\ (res.token.class = res.other.class /\ res.token.value # res.other.value) =>
                (~res.eq /\ res.discrimnant)

\* Two keywords with different payloads were compared.
C22_Witness ==
    /\ op = "eq_token"
    /\ res.token = Keyword(<<"a">>)
    /\ res.other = Keyword(<<"a", "b">>)
    /\ ~res.eq
    /\ res.discrimnant

\* C23: the 13 operators have 13 lexemes; an operator's text is an operator
\* and Operator::from of it gives the operator back; a text is an operator
\* exactly when it is one of the 13 lexemes, and then the text of
\* Operator::from of it is the text itself.
C23_OperatorRoundTrip ==
    /\ Cardinality(Operators) = 13
    /\ op = "display" =>
          /\ res.is
          /\ res.from = res.operator
          /\ \A o \in Operators : Display(o) = res.text => o = res.operator
    /\ op = "from" =>
          /\ res.is <=> (\E o \in Operators : Display(o) = res.word)
          /\ res.is => (res.operator \in Operators /\ res.text = Some(res.word))

\* -- was made an operator and written back.
C23_Witness ==
    /\ op = "from"
    /\ res.word = <<"-", "-">>
    /\ res.is
    /\ res.operator = "Decrement"
    /\ res.text = Some(<<"-", "-">>)

\* The token of a single character that is its own token.
SingleChar(c) ==
    CASE c = ";" -> Bare("Semi")
      [] c = "(" -> Bare("Lparen")
      [] c = ")" -> Bare("Rparen")
      [] c = "{" -> Bare("LCurly")
      [] c = "}" -> Bare("RCurly")
      [] c = "=" -> Bare("Assignment")
      [] c = "," -> Bare("Comma")

\* The first rule that matches a word, in the order keyword, operator,
\* boolean, string literal, number, single character, identifier.
FirstRule(word) ==
    IF word \in {KEYWORDS[i] : i \in DOMAIN KEYWORDS} THEN Keyword(word)
    ELSE IF \E o \in Operators : Display(o) = word
         THEN Operator(CHOOSE o \in Operators : Display(o) = word)
    ELSE IF word \in {TrueWord, FalseWord} THEN Boolean(word)
    ELSE IF Len(word) >= 2 /\ Head(word) = "\"" /\ word[Len(word)] = "\""
         THEN Literal(SubSeq(word, 2, Len(word) - 1))
    ELSE IF \/ IsDigits(word)
            \/ \E k \in 1..Len(word) :
                  /\ word[k] = "."
                  /\ IsDigits(SubSeq(word, 1, k - 1))
                  /\ IsDigits(SubSeq(word, k + 1, Len(word)))
         THEN Number(word)
    ELSE IF Len(word) = 1 /\ word[1] \in {";", "(", ")", "{", "}", "=", ","}
         THEN SingleChar(word[1])
    ELSE Identifier(word)

\* C24: Token::from(&str) gives a word the token of the first rule that
\* matches it, in the order keyword, operator, boolean, string literal,
\* number, single character, identifier.
C24_FirstMatchingRule == op = "from_str" => res = Some(FirstRule(input))

\* The examples of the claim, and the words that are classified by another
\* rule than the first that matches: those that start with true or end with
\* false and are neither.
ClassifiedExamples ==
    op = "from_str" =>
       /\ input = <<"=">> => res = Some(Bare("Assignment"))
       /\ input = Word19p5 => res = Some(Number(input))
       /\ input \in {WordDotted, Word3p, Word1p2p3} => res = Some(Identifier(input))
       /\ res # Some(FirstRule(input)) =>
             /\ ~is_keyword(input)
             /\ ~is_operator(input)
             /\ input \notin {TrueWord, FalseWord}
             /\ StartsWith(input, TrueWord) \/ EndsWith(input, FalseWord)
             /\ res = Some(Boolean(input))

\* C25: back() with no checkpoint open returns an error and leaves the
\* stream position, the peek slot and the stack as they were; a back() that
\* succeeds pops one checkpoint, a checkpoint() pushes one and no other call
\* changes the stack, so the depth of the stack is the number of checkpoints
\* taken and not yet gone back to.
C25_BackOnEmptyStack ==
    [][/\ op' = "back" =>
             IF last_positions = <<>>
             THEN /\ res' = None
                  /\ pos' = pos
                  /\ peeked_char' = peeked_char
                  /\ last_positions' = <<>>
             ELSE /\ IsSome(res')
                  /\ last_positions' = SubSeq(last_positions, 1, Len(last_positions) - 1)
       /\ op' = "checkpoint" => Len(last_positions') = Len(last_positions) + 1
       /\ op' \notin {"back", "checkpoint"} => last_positions' = last_positions
       /\ Len(last_positions') = Len(logs')]_vars

\* back() failed with a character peeked, and the character is still there.
C25_Witness ==
    /\ op = "back"
    /\ res = None
    /\ last_positions = <<>>
    /\ IsSome(peeked_char)
    /\ pos = 1

\* The characters a token stands for, outside string literals.
Lexeme(token) ==
    CASE token.class = "Operator" -> Display(token.value[1])
      [] token.class = "Semi" -> <<";">>
      [] token.class = "Lparen" -> <<"(">>
      [] token.class = "Rparen" -> <<")">>
      [] token.class = "LCurly" -> <<"{">>
      [] token.class = "RCurly" -> <<"}">>
      [] token.class = "Assignment" -> <<"=">>
      [] token.class = "Comma" -> <<",">>
      [] OTHER -> token.value

\* The characters of the tokens next() has returned, in order.
Emitted == Flatten([i \in 1..Len(out) |-> IF IsSome(out[i]) THEN Lexeme(Unwrap(out[i]).token) ELSE <<>>])

\* C26: once the end of an input without string literals is reached, the
\* tokens next() has returned are made of the characters of the input that
\* are not whitespace, each once and in order; a word followed at once by an
\* operator character is a token before the operator.
C26_NoTextDiscarded ==
    ( /\ \A i \in 1..Len(input) : input[i] # "\""
      /\ EofsSeen > 0 )
    => Emitted = SelectSeq(input, LAMBDA c : ~is_whitespace(c))

\* C27: eat_exact(token) succeeds iff the next token equals token, payload
\* included, and then consumes exactly that token; when it fails it returns
\* UnexpectedToken(expected, actual), with actual "Unknown" at end of input,
\* and leaves every token of the stream still to come.
C27_EatExactLikeEat ==
    op = "eat_exact" =>
        /\ res.ok <=> (TokenStream(input) # <<>> /\ TokenStream(input)[1].token = res.token)
        /\ res.ok => /\ Drain(input, CurLexer) = Tail(TokenStream(input))
                     /\ res.node = Leaf(TokenStream(input)[1], res.token.class)
        /\ ~res.ok =>
              /\ res.err = Some(UnexpectedToken(TokenDisplay(res.token),
                                 IF TokenStream(input) = <<>> THEN <<"Unknown">>
                                 ELSE TokenDisplay(TokenStream(input)[1].token)))
              /\ Drain(input, CurLexer) = TokenStream(input)

\* What the code does instead: the token is consumed whether it matches or
\* not, and end of input is the lexer's error.
C27_EatExactConsumes ==
    op = "eat_exact" =>
        /\ res.ok <=> (TokenStream(input) # <<>> /\ TokenStream(input)[1].token = res.token)
        /\ TokenStream(input) # <<>> => Drain(input, CurLexer) = Tail(TokenStream(input))
        /\ TokenStream(input) = <<>> => res.err = Some(LexerError)
        /\ (~res.ok /\ TokenStream(input) # <<>>) =>
              res.err = Some(UnexpectedToken(TokenDisplay(res.token),
                                             TokenDisplay(TokenStream(input)[1].token)))


\* A character that is neither whitespace, special character, operator
\* character nor digit.
PlainChar(c) ==
    /\ ~is_whitespace(c)
    /\ ~is_special_char(c)
    /\ ~is_operator(<<c>>)
    /\ c \notin Digits

\* C28: no token returned by Lexer::next (or shown by peek) has class Error,
\* and Token::from(&str) never returns Error: a single character that is
\* neither whitespace, special character, operator character nor digit is an
\* Identifier carrying that character, from Token::from and from the lexer.
C28_NoErrorToken ==
    /\ \A i \in 1..Len(out) : IsSome(out[i]) => Unwrap(out[i]).token.class # "Error"
    /\ (op = "peek" /\ IsSome(res)) => Unwrap(res).token.class # "Error"
    /\ TokenFromStr(input).class # "Error"
    /\ (Len(input) = 1 /\ PlainChar(input[1])) =>
          /\ TokenFromStr(input) = Identifier(input)
          /\ Len(out) >= 1 => out[1] = Some(TokenInfo(1, 1, Identifier(input)))
    /\ \A i \in 1..Len(out) :
          (IsSome(out[i]) /\ Unwrap(out[i]).token.class = "Identifier")
              => Unwrap(out[i]).token = TokenFromStr(Unwrap(out[i]).token.value)

\* The lexer has returned `@` as an Identifier.
C28_Witness ==
    /\ input = <<"@">>
    /\ op = "next"
    /\ out = <<Some(TokenInfo(1, 1, Identifier(<<"@">>)))>>


\* A tree without its locations.
Tree(kind, value, children) == [kind |-> kind, value |-> value, children |-> children]

RECURSIVE Unlocated(_)
Unlocated(node) ==
    Tree(node.kind, node.value, [i \in 1..Len(node.children) |-> Unlocated(node.children[i])])

\* Expression[a, o1, Expression[1, o2, Expression[a]]]
RightLeaning(o1, o2) ==
    Tree("Expression", None,
         <<Tree("Identifier", Some(<<"a">>), <<>>), Tree("Operator", Some(o1), <<>>),
           Tree("Expression", None,
                <<Tree("Number", Some(<<"1">>), <<>>), Tree("Operator", Some(o2), <<>>),
                  Tree("Expression", None, <<Tree("Identifier", Some(<<"a">>), <<>>)>>)>>)>>)

\* Where the operand of an Expression ends: after ( Expression ) or after
\* one token.
OperandEnd(c) == IF c # <<>> /\ c[1].kind = "Lparen" THEN 3 ELSE 1

\* An Expression is an operand, then nothing, or ++, or another operator and
\* an Expression.
ExpressionShape(c, h) ==
    /\ Len(c) >= h
    /\ IF h = 3 THEN c[2].kind = "Expression" /\ c[3].kind = "Rparen"
       ELSE c[1].kind \in {"Identifier", "Boolean", "Number", "Literal"}
    /\ IF Len(c) = h THEN TRUE
       ELSE /\ c[h + 1].kind = "Operator"
            /\ IF c[h + 1].value = Some(<<"+", "+">>) THEN Len(c) = h + 1
               ELSE Len(c) = h + 2 /\ c[h + 2].kind = "Expression"

\* The Expression children of the first statement of an accepted program.
FirstExpressions == [i \in 1..Len(Expressions(res.node.children[1])) |->
                        Unlocated(Expressions(res.node.children[1])[i])]

OperandExpected == JoinOr(<<"Identifier", "Boolean", "Number", "Literal">>)

\* C29: expressions lean to the right and have no precedence:
\* a o1 1 o2 a is Expression[a, o1, Expression[1, o2, Expression[a]]] for
\* all operators but ++; ++ ends its Expression, so that what follows it is
\* not part of it; every other operator, -- too, is followed by an
\* Expression, or parsing fails with UnexpectedToken.
C29_RightRecursive ==
    op = "parse" =>
       /\ res.ok => \A n \in Nodes(res.node) :
                        n.kind = "Expression" => ExpressionShape(n.children, OperandEnd(n.children))
       /\ \A o1 \in BinaryLexemes, o2 \in BinaryLexemes :
             input = ChainOf(o1, o2) => res.ok /\ FirstExpressions = <<RightLeaning(o1, o2)>>
       /\ \A o \in BinaryLexemes :
             /\ input = OperandMissing(o, << <<";">> >>) =>
                   res.err = Some(UnexpectedToken(OperandExpected, TokenDisplay(Bare("Semi"))))
             /\ input = OperandMissing(o, <<>>) =>
                   res.err = Some(UnexpectedToken(OperandExpected, <<"Unknown">>))
       /\ input = OperandMissing(<<"+", "+">>, << <<";">> >>) =>
             /\ res.ok
             /\ FirstExpressions =
                   <<Tree("Expression", None, <<Tree("Identifier", Some(<<"a">>), <<>>),
                                                Tree("Operator", Some(<<"+", "+">>), <<>>)>>)>>
       /\ input = IntAIncrement1 =>
             /\ res.ok
             /\ FirstExpressions =
                   <<Tree("Expression", None, <<Tree("Identifier", Some(<<"a">>), <<>>),
                                                Tree("Operator", Some(<<"+", "+">>), <<>>)>>),
                     Tree("Expression", None, <<Tree("Number", Some(<<"1">>), <<>>)>>)>>
       /\ \A o \in OperatorLexemes :
             input = AfterIncrement(o) =>
                 res.err = Some(UnexpectedToken(OperandExpected,
                                                TokenDisplay(Operator(OperatorFrom(o)))))

\* int a = a -- 1 - a ; was parsed to a tree.
C29_Witness ==
    /\ op = "parse"
    /\ input = ChainOf(<<"-", "-">>, <<"-">>)
    /\ res.ok
    /\ Len(Leaves(res.node)) = 9


WhileWord == <<"w", "h", "i", "l", "e">>

\* The production named for a statement that starts with token, applied at
\* lexer lx.
ProductionFor(token, lx) ==
    IF token.class # "Keyword" THEN parse_function_call_statement(input, lx)
    ELSE IF token.value \in {IfWord, WhileWord} THEN parse_condition_statement(input, lx)
    ELSE IF token.value = ForWord THEN parse_for_loop_statement(input, lx)
    ELSE IF token.value = FnWord THEN parse_function_definition(input, lx)
    ELSE IF token.value = ReturnWord THEN parse_return_statement(input, lx)
    ELSE parse_assignment_statement(input, lx)

\* The kind of node that production makes.
KindFor(token) ==
    IF token.class # "Keyword" THEN "FunctionCall"
    ELSE IF token.value \in {IfWord, WhileWord} THEN "ConditionStatement"
    ELSE IF token.value = ForWord THEN "ForLoopStatement"
    ELSE IF token.value = FnWord THEN "FunctionDefinition"
    ELSE IF token.value = ReturnWord THEN "ReturnStatement"
    ELSE "AssignmentStatement"

\* The step has returned what r is and left the lexer where r leaves it; an
\* accepted statement is of the kind named for the token and starts with it.
ChoseProduction(info, r) ==
    /\ res' = [ok |-> r.ok, node |-> r.node, err |-> r.err]
    /\ Lexer(line', column', Reader(pos', peeked_char', last_positions'), peeked') = r.lx
    /\ r.ok => /\ r.node.kind = KindFor(info.token)
               /\ Leaves(r.node)[1] = Leaf(info, info.token.class)

Chose(pk) == ChoseProduction(Unwrap(pk.val), ProductionFor(Unwrap(pk.val).token, pk.lx))

\* C30: parse_statement chooses its production from the next token alone
\* and leaves the token to the production: a token that is no keyword
\* selects FunctionCall, if and while ConditionStatement, for
\* ForLoopStatement, fn FunctionDefinition, return ReturnStatement, every
\* other keyword AssignmentStatement.
C30_StatementDispatch ==
    [][(op' \in {"parse_program", "parse_block"} /\ IsSome(peek(input, CurLexer).val))
          => Chose(peek(input, CurLexer))]_vars

\* else a = 1 ; was parsed as an assignment.
C30_Witness ==
    /\ op = "parse_program"
    /\ input = Spell(<<KEYWORDS[3], <<"a">>, <<"=">>, <<"1">>, <<";">> >>, <<" ">>)
    /\ res.ok
    /\ res.node.kind = "AssignmentStatement"
    /\ Len(res.node.children) = 5


\* ------------------------------------------ eat and eat_any_of, one call
\* at a time

\* { , }
Punctuation == <<"{", " ", ",", " ", "}">>

\* The statements of each simple kind, texts and an operator, the
\* punctuation no statement has, and inputs of no token.
EatInputs ==
    {Spell(p, <<" ">>) : p \in CoreStmts}
    \cup {IntTexts, IntAIncrement1, Punctuation, <<>>, <<" ">>}

\* The lists handed to eat_any_of: the list of parse_expression, lists of
\* one and of no class, and lists with a class twice.
ClassLists ==
    {<<"Identifier", "Boolean", "Number", "Literal">>, <<"Keyword", "Identifier">>,
     <<"Identifier", "Keyword">>, <<"Semi">>, <<"Number", "Semi", "Number">>, <<>>}

InitEat == input \in EatInputs /\ Fresh

\* The parser after one call o that was asked for the classes asked and
\* returned r.
Eaten(o, asked, r) ==
    /\ SetLexer(r.lx)
    /\ op' = o
    /\ res' = [asked |-> asked, ok |-> r.ok, node |-> r.node, err |-> r.err]
    /\ UNCHANGED <<input, readerObs, lexerObs>>

\* self.eat(&class)
EatCall ==
    /\ Walking
    /\ \E class \in TokenKinds : Eaten("eat", <<class>>, eat(input, CurLexer, class))

\* self.eat_any_of(&tokens)
EatAnyOfCall ==
    /\ Walking
    /\ \E tokens \in ClassLists : Eaten("eat_any_of", tokens, eat_any_of(input, CurLexer, tokens))

NextEat ==
    \/ Walking /\ LexNext
    \/ Walking /\ LexPeek
    \/ EatCall
    \/ EatAnyOfCall

SpecEat == InitEat /\ [][NextEat]_vars

\* The tokens still to come after the step.
DrainAfter ==
    Drain(input, Lexer(line', column', Reader(pos', peeked_char', last_positions'), peeked'))

\* What the token met is called in an error.
Met(before) == IF before = <<>> THEN <<"Unknown">> ELSE TokenDisplay(before[1].token)

\* eat(class) with the tokens before still to come has returned r and left
\* the tokens after.
EatFrame(class, before, after, r) ==
    IF before # <<>> /\ before[1].token.class = class
    THEN /\ r.ok
         /\ r.node = LeafOf(before[1])
         /\ r.node.kind = class
         /\ after = Tail(before)
    ELSE /\ ~r.ok
         /\ r.node = None
         /\ r.err = Some(UnexpectedToken(<<class>>, Met(before)))
         /\ after = before

\* C31: eat(class) consumes exactly one token and returns its leaf when the
\* next token is of the class; when the class differs or no token is left it
\* returns UnexpectedToken and every token that was to come is still to come.
C31_EatFrame ==
    [][op' = "eat" => EatFrame(res'.asked[1], Drain(input, CurLexer), DrainAfter, res')]_vars

\* eat(Semi) has failed before the a of int a = 1 ; with int taken.
C31_Witness ==
    /\ op = "eat"
    /\ input = Spell(<<IntWord, <<"a">>, <<"=">>, <<"1">>, <<";">> >>, <<" ">>)
    /\ res.asked = <<"Semi">>
    /\ ~res.ok
    /\ Len(Drain(input, CurLexer)) = 4

OperandClasses == <<"Identifier", "Boolean", "Number", "Literal">>

\* eat_any_of(tokens) with the tokens before still to come has returned r
\* and left the tokens after.
EatAnyOfFrame(tokens, before, after, r) ==
    IF before # <<>> /\ \E i \in 1..Len(tokens) : tokens[i] = before[1].token.class
    THEN /\ r.ok
         /\ r.node = LeafOf(before[1])
         /\ after = Tail(before)
    ELSE /\ ~r.ok
         /\ r.node = None
         /\ Unwrap(r.err).kind = "UnexpectedToken"
         /\ Unwrap(r.err).expected = JoinOr(tokens)
         /\ tokens = OperandClasses =>
               Unwrap(r.err).expected =
                  <<"Identifier", " or ", "Boolean", " or ", "Number", " or ", "Literal">>
         /\ Len(tokens) = 3 =>
               Unwrap(r.err).expected = <<tokens[1], " or ", tokens[2], " or ", tokens[3]>>
         /\ Unwrap(r.err).actual = Met(before)
         /\ after = before

\* C35: eat_any_of(classes) returns the leaf of the next token and consumes
\* exactly that token when one of the classes is the token's; when none is
\* it consumes nothing and returns UnexpectedToken with the class names in
\* list order joined by " or " as expected and the next token, or Unknown
\* at the end of the input, as actual.
C35_EatAnyOfFrame ==
    [][op' = "eat_any_of"
          => EatAnyOfFrame(res'.asked, Drain(input, CurLexer), DrainAfter, res')]_vars

\* eat_any_of of the four operand classes has failed at the = of int a = 1 ;
C35_Witness ==
    /\ op = "eat_any_of"
    /\ input = Spell(<<IntWord, <<"a">>, <<"=">>, <<"1">>, <<";">> >>, <<" ">>)
    /\ res.asked = OperandClasses
    /\ ~res.ok
    /\ Unwrap(res.err).actual = TokenDisplay(Bare("Assignment"))
    /\ Len(Drain(input, CurLexer)) = 3


\* The token comes of no panic: an operator is one of the enum, and a
\* literal scanned at input index first stands between two quotes there.
NoPanicIn(token, first) ==
    /\ token.class = "Operator" => token.value[1] \in Operators
    /\ token.class = "Literal" =>
          /\ first + Len(token.value) + 1 <= Len(input)
          /\ input[first] = "\""
          /\ input[first + Len(token.value) + 1] = "\""

\* C32: next() and peek() never panic: wherever the lexer stands, neither
\* call reaches the expect on a character that is not there; every operator
\* token is an operator of the enum, so that Operator::from met none of its
\* panic arm; every literal was cut out of a word of two characters at least.
C32_NoPanic ==
    /\ ~next(input, CurLexer).panic
    /\ ~peek(input, CurLexer).panic
    /\ \A i \in 1..Len(out) :
          (IsSome(out[i]) /\ Unwrap(out[i]).token.class = "Operator")
              => Unwrap(out[i]).token.value[1] \in Operators
    /\ IsSome(lexed) => NoPanicIn(Unwrap(lexed).info.token, Unwrap(lexed).first)

\* The lexer has returned the operator of <= and stands before an end of
\* input at which the next call peeks nothing.
C32_Witness ==
    /\ input = <<"<", "=">>
    /\ op = "next"
    /\ res = Some(TokenInfo(1, 1, Operator("LesserEqual")))
    /\ ~next(input, CurLexer).ok


\* The characters a reader has handed out: those read from the stream but
\* for one that waits in the peek slot.
ConsumedOf(r) == r.pos - Len(r.peeked_char)

\* The tokens among the results of next().
TokensOf(results) == Len(SelectSeq(results, LAMBDA r : IsSome(r)))

\* Every call of next() on itself, from lexer lx on, is made with more
\* characters consumed than the call that makes it began with.
RECURSIVE Progressing(_)

ProgressingLoop(from, loop) ==
    IF ~IsSome(loop.ret) /\ loop.st.word = <<>>
    THEN ConsumedOf(loop.st.cursor) > ConsumedOf(from) /\ Progressing(LexerOf(loop.st))
    ELSE TRUE

ProgressingPeeked(lx, pk) ==
    IF ~IsSome(pk.val) THEN TRUE
    ELSE ProgressingLoop(pk.r,
            Scan(input, [cursor |-> pk.r, line |-> lx.line, column |-> lx.column,
                         word |-> <<>>, in_a_string |-> FALSE,
                         start_column |-> lx.column + 1, start_line |-> lx.line,
                         first |-> 0]))

Progressing(lx) == ProgressingPeeked(lx, peek_char(input, lx.cursor))

\* C33: the lexer makes progress: a call that scans a token (one not taken
\* from the memo) consumes at least one character; next() calls itself only
\* with more characters consumed; so the tokens returned are never more
\* than the characters consumed, at most as many as the input has, and a
\* next() with the input consumed and no memo returns EndOfFileReached, as
\* does no next() before the input is consumed.
C33_Progress ==
    [][/\ (op' \in {"next", "peek"} /\ ~IsSome(peeked) /\ IsSome(res')) =>
             ConsumedOf(Reader(pos', peeked_char', last_positions')) > ConsumedOf(Cur)
       /\ Progressing([CurLexer EXCEPT !.peeked = None])
       /\ TokensOf(out') <= ConsumedOf(Reader(pos', peeked_char', last_positions'))
       /\ TokensOf(out') <= Len(input)
       /\ (op' = "next" /\ ~IsSome(peeked) /\ ConsumedOf(Cur) = Len(input)) => res' = None
       /\ (op' = "next" /\ res' = None) =>
             ConsumedOf(Reader(pos', peeked_char', last_positions')) = Len(input)]_vars

\* Of a blank, a newline and an a, all three were consumed for the one token.
C33_Witness ==
    /\ input = <<" ", NL, "a">>
    /\ op = "next"
    /\ res = Some(TokenInfo(2, 1, Identifier(<<"a">>)))
    /\ ConsumedOf(Cur) = 3
    /\ TokensOf(out) = 1


WordClasses == {"Identifier", "Keyword", "Number", "Boolean", "Literal"}

\* The text of a token in the input: a literal stands between its quotes.
Written(token) ==
    IF token.class = "Literal" THEN <<"\"">> \o token.value \o <<"\"">> ELSE Lexeme(token)

\* The token the lexer emits after the one it scanned last.
NextAfter == next(input, [CurLexer EXCEPT !.peeked = None])

\* The word scanned at input index first is followed at once by a special
\* character.
BeforeSpecial(info, first) ==
    /\ info.token.class \in WordClasses
    /\ first + Len(Written(info.token)) <= Len(input)
    /\ is_special_char(input[first + Len(Written(info.token))])

\* The token r is the special character at input index at, one column past
\* the word of info.
SpecialNext(info, at, r) ==
    /\ r.ok
    /\ r.first = at
    /\ r.info = TokenInfo(info.line, info.start_column + Len(Written(info.token)),
                          SingleChar(input[at]))
    /\ r.info.token.value = <<>>

\* C34 as written: a word followed at once by a special character is
\* emitted without it, and the special character is the next token, with no
\* payload, one column past the word.
C34_SpecialCharNext ==
    (IsSome(lexed) /\ BeforeSpecial(Unwrap(lexed).info, Unwrap(lexed).first)) =>
        SpecialNext(Unwrap(lexed).info,
                    Unwrap(lexed).first + Len(Written(Unwrap(lexed).info.token)), NextAfter)


\* The special character at input index at is an = with another = after it.
EqualsTwice(at) == input[at] = "=" /\ at < Len(input) /\ input[at + 1] = "="

\* The token r is the operator == at input index at, one column past the
\* word of info.
EqualNext(info, at, r) ==
    /\ r.ok
    /\ r.first = at
    /\ r.info = TokenInfo(info.line, info.start_column + Len(Written(info.token)),
                          Operator("Equal"))

AfterWord(info, at, r) ==
    IF EqualsTwice(at) THEN EqualNext(info, at, r) ELSE SpecialNext(info, at, r)

\* The input is of words, special characters and blanks: it has no quote
\* and no operator character but =.
WordsAndSpecials ==
    \A i \in 1..Len(input) : input[i] \notin {"\"", "+", "-", "/", "*", "<", ">", "&", "|"}

\* C34, amended: a word followed at once by a special character is emitted
\* without it, and the special character is the next token, with no payload,
\* one column past the word; unless the special character is an = followed
\* at once by another =, and then the next token is the operator == at that
\* column.  Of an input of words, special characters and blanks every
\* word is emitted: the tokens spell the input without its blanks.
C34_SpecialCharOrEqual ==
    /\ (IsSome(lexed) /\ BeforeSpecial(Unwrap(lexed).info, Unwrap(lexed).first)) =>
          AfterWord(Unwrap(lexed).info,
                    Unwrap(lexed).first + Len(Written(Unwrap(lexed).info.token)), NextAfter)
    /\ (EofsSeen > 0 /\ WordsAndSpecials) =>
          Emitted = SelectSeq(input, LAMBDA c : ~is_whitespace(c))

\* The lexer has returned the word aa and stands before the ; that follows
\* it.
C34_Witness ==
    /\ input = <<"a", "a", ";">>
    /\ op = "next"
    /\ res = Some(TokenInfo(1, 1, Identifier(<<"a", "a">>)))
    /\ pos = 3
    /\ NextAfter.info = TokenInfo(1, 3, Bare("Semi"))


====
